---- MODULE Spec2Model ----
(***************************************************************************)
(* Code-intelligence and context-budgeting pipeline of release-helper:     *)
(* the token estimator (utils/tokens.ts), the chunk partitioner            *)
(* (chunking/strategy.ts) and the call graph with its bounded queries      *)
(* (analysis/call-graph.ts).                                               *)
(*                                                                         *)
(* A JavaScript string is modelled as the sequence of its characters, each *)
(* character a one-letter TLA+ string, so that split, join, startsWith,    *)
(* includes, length and template concatenation are computed as the code    *)
(* computes them.                                                          *)
(***************************************************************************)
EXTENDS Integers, Sequences, FiniteSets, TLC

VARIABLES
    \* ---- chunk partitioner (one caller of createChunks) ----
    input,        \* the file list as the caller built it (history, never written)
    files,        \* the caller's array object, the argument of createChunks
    strategy,     \* the ChunkStrategy argument
    chunks,       \* the Chunk[] returned by the latest call
    prevChunks,   \* the Chunk[] returned by the call before it
    runs,         \* number of createChunks calls made so far
    \* ---- call graph and its queries (one request) ----
    fileAnalysis,     \* the per-file facts handed to buildCallGraph
    graph,            \* the Map returned by buildCallGraph
    pc,               \* "facts", "ready", "deps", "impact" or "done"
    query,            \* the query being answered: [kind, file, name, maxDepth]
    queue,            \* local of findDependencies / getImpactAnalysis
    visited,          \* local of findDependencies / getImpactAnalysis
    directCallers,    \* local of getImpactAnalysis
    allCallers,       \* local of getImpactAnalysis (a Set, in insertion order)
    impactedFiles,    \* local of getImpactAnalysis
    maxDepthReached,  \* local of getImpactAnalysis
    result,           \* what the latest query returned
    expanded,         \* history: the keys that passed the loop guard, in order
    \* ---- token utilities (one caller of utils/tokens.ts) ----
    argText,         \* the text argument
    argText2,        \* a second text, for estimateTokens
    argMaxTokens,    \* the maxTokens argument
    estimated,    \* [returned, a, b]: estimateTokens(argText), estimateTokens(argText2)
    truncated,    \* [returned, value]: what truncateToTokens returned
    pieces,       \* [returned, value]: what splitByTokens returned
    \* ---- source model extractor (one call of parseFile) ----
    argFilename,     \* the filename argument
    argContent,      \* the content argument
    parser,       \* what the parser library does with the content: [throws, ast]
    parsed,       \* [returned, raised, ast, functions, dependencies, metrics]
    \* ---- tool dispatch (one call of executeTool) ----
    toolCall,     \* the ToolCall argument: [name, arguments]
    world,        \* what the file system and the subprocesses do in this call
    toolResult,   \* [returned, raised, value]: how executeTool ended
    \* ---- review conversation (one call of performAIReview) ----
    config,       \* [openaiApiKey]: whether the key is configured
    reviewPc,     \* "start", "loop", "returned", "raised" ("off" elsewhere)
    iteration,    \* the loop counter
    requests,     \* number of callOpenAI calls made so far
    messages,     \* the conversation, as the number of messages of each role
    response,     \* the latest response of the remote model
    toolResults,  \* the toolResults array of the latest loop iteration
    review        \* the string performAIReview returned

chunkVars == <<input, files, strategy, chunks, prevChunks, runs>>
graphVars == <<fileAnalysis, graph, pc, query, queue, visited, directCallers,
               allCallers, impactedFiles, maxDepthReached, result, expanded>>
tokenVars == <<argText, argText2, argMaxTokens, estimated, truncated, pieces>>
extractVars == <<argFilename, argContent, parser, parsed>>
toolVars == <<toolCall, world, toolResult>>
reviewVars == <<config, reviewPc, iteration, requests, messages, response,
                toolResults, review>>
vars == <<input, files, strategy, chunks, prevChunks, runs,
          fileAnalysis, graph, pc, query, queue, visited, directCallers,
          allCallers, impactedFiles, maxDepthReached, result, expanded,
          argText, argText2, argMaxTokens, estimated, truncated, pieces,
          argFilename, argContent, parser, parsed,
          toolCall, world, toolResult,
          config, reviewPc, iteration, requests, messages, response,
          toolResults, review>>

(***************************************************************************)
(* Bounds of the model.                                                    *)
(***************************************************************************)
MaxFiles == 3      \* longest file list handed to createChunks
MaxRuns == 2       \* createChunks calls on one array
MaxDepthArg == 3   \* largest maxDepth a query is started with, besides 10
MaxLines == 2      \* most lines of a text handed to the token utilities
MaxTokensArg == 3  \* largest maxTokens handed to the token utilities

(***************************************************************************)
(* The components share no state.  Each has its own specification; the     *)
(* variables of the other components keep these values.                    *)
(***************************************************************************)
NoQuery == [kind |-> "none", file |-> <<>>, name |-> <<>>, maxDepth |-> 0]
NoResult ==
    [returned |-> FALSE, edges |-> <<>>, keys |-> {}, directCallers |-> <<>>,
     allCallers |-> <<>>, impactedFiles |-> {}, depth |-> 0]

GraphIdle ==
    /\ fileAnalysis = <<>>
    /\ graph = <<>>
    /\ pc = "off"
    /\ query = NoQuery
    /\ queue = <<>>
    /\ visited = {}
    /\ directCallers = <<>>
    /\ allCallers = <<>>
    /\ impactedFiles = {}
    /\ maxDepthReached = 0
    /\ result = NoResult
    /\ expanded = <<>>

ChunksIdle ==
    /\ input = <<>>
    /\ files = <<>>
    /\ strategy = [maxTokensPerChunk |-> 0, groupByModule |-> FALSE]
    /\ chunks = <<>>
    /\ prevChunks = <<>>
    /\ runs = 0

NoEstimate == [returned |-> FALSE, a |-> 0, b |-> 0]
NoString == [returned |-> FALSE, value |-> <<>>]

TokensIdle ==
    /\ argText = <<>>
    /\ argText2 = <<>>
    /\ argMaxTokens = 0
    /\ estimated = NoEstimate
    /\ truncated = NoString
    /\ pieces = NoString

NoParse ==
    [returned |-> FALSE, raised |-> FALSE, ast |-> "none", functions |-> <<>>,
     dependencies |-> <<>>, metrics |-> <<>>]

ExtractIdle ==
    /\ argFilename = <<>>
    /\ argContent = <<>>
    /\ parser = <<>>
    /\ parsed = NoParse

NoToolResult == [returned |-> FALSE, raised |-> FALSE, value |-> <<>>]

ToolsIdle ==
    /\ toolCall = <<>>
    /\ world = <<>>
    /\ toolResult = NoToolResult

NoResponse == [received |-> FALSE, parts |-> <<>>]

ReviewIdle ==
    /\ config = <<>>
    /\ reviewPc = "off"
    /\ iteration = 0
    /\ requests = 0
    /\ messages = <<>>
    /\ response = NoResponse
    /\ toolResults = <<>>
    /\ review = <<>>

(***************************************************************************)
(* JavaScript string and array built-ins, on character sequences.          *)
(***************************************************************************)
Max(a, b) == IF a >= b THEN a ELSE b

\* String.prototype.startsWith
StartsWith(s, p) == Len(s) >= Len(p) /\ SubSeq(s, 1, Len(p)) = p

\* String.prototype.includes
Includes(s, p) ==
    \E i \in 1..(Len(s) - Len(p) + 1) : SubSeq(s, i, i + Len(p) - 1) = p

\* String.prototype.lastIndexOf for one character, 1-based, 0 when absent
LastIndexOf(s, c) ==
    IF \E i \in 1..Len(s) : s[i] = c
    THEN CHOOSE i \in 1..Len(s) : s[i] = c /\ \A j \in (i + 1)..Len(s) : s[j] # c
    ELSE 0

\* String.prototype.split on a one-character separator
RECURSIVE Split(_, _)
Split(s, c) ==
    IF \A i \in 1..Len(s) : s[i] # c
    THEN <<s>>
    ELSE LET i == CHOOSE k \in 1..Len(s) : s[k] = c /\ \A j \in 1..(k - 1) : s[j] # c
         IN  <<SubSeq(s, 1, i - 1)>> \o Split(SubSeq(s, i + 1, Len(s)), c)

\* Array.prototype.join with a one-character separator ([].join is '')
RECURSIVE Join(_, _)
Join(parts, c) ==
    IF parts = <<>> THEN <<>>
    ELSE IF Len(parts) = 1 THEN parts[1]
    ELSE parts[1] \o <<c>> \o Join(Tail(parts), c)

\* The characters file names are written in, in collation order.  On this
\* alphabet (punctuation, then digits, then lower-case letters) the order of
\* String.prototype.localeCompare is the lexicographic order of the ranks.
Alphabet ==
    <<"-", ".", "/", "0", "1", "2", "3", "4", "5", "6", "7", "8", "9",
      "a", "b", "c", "d", "e", "f", "g", "h", "i", "j", "k", "l", "m",
      "n", "o", "p", "q", "r", "s", "t", "u", "v", "w", "x", "y", "z">>

Rank(c) == CHOOSE i \in 1..Len(Alphabet) : Alphabet[i] = c

\* String.prototype.localeCompare: negative, zero or positive
RECURSIVE localeCompare(_, _)
localeCompare(a, b) ==
    IF a = <<>> /\ b = <<>> THEN 0
    ELSE IF a = <<>> THEN -1
    ELSE IF b = <<>> THEN 1
    ELSE IF Rank(Head(a)) < Rank(Head(b)) THEN -1
    ELSE IF Rank(Head(a)) > Rank(Head(b)) THEN 1
    ELSE localeCompare(Tail(a), Tail(b))

\* path.dirname, for relative paths without a trailing slash
dirname(p) ==
    LET i == LastIndexOf(p, "/")
    IN  IF i = 0 THEN <<".">>
        ELSE IF i = 1 THEN <<"/">>
        ELSE SubSeq(p, 1, i - 1)

\* path.extname: from the last '.' of the last path segment, '' when that
\* segment has no '.' or only a leading one
extname(p) ==
    LET base == SubSeq(p, LastIndexOf(p, "/") + 1, Len(p))
        i == LastIndexOf(base, ".")
    IN  IF i <= 1 THEN <<>> ELSE SubSeq(base, i, Len(base))

\* decimal digits of a number below 100, as template literals print it
Digit(d) == <<"0", "1", "2", "3", "4", "5", "6", "7", "8", "9">>[d + 1]
Decimal(n) == IF n < 10 THEN <<Digit(n)>> ELSE <<Digit(n \div 10), Digit(n % 10)>>

(***************************************************************************)
(* utils/tokens.ts                                                         *)
(***************************************************************************)
codeIndicators ==
    << <<"{">>, <<"}">>, <<"(">>, <<")">>, <<";">>,
       <<"f", "u", "n", "c", "t", "i", "o", "n">>,
       <<"c", "l", "a", "s", "s">>,
       <<"c", "o", "n", "s", "t">>,
       <<"l", "e", "t">> >>

\* Variant of estimateTokens: Math.round in place of Math.ceil.
estimateTokensRounded(text) ==
    LET isCode == \E k \in 1..Len(codeIndicators) : Includes(text, codeIndicators[k])
    IN  IF isCode THEN (4 * Len(text) + 5) \div 10 ELSE (2 * Len(text) + 4) \div 8

\* estimateTokens: Math.ceil(length / 2.5) for code, Math.ceil(length / 4)
\* otherwise.  Both quotients are exact or strictly between two integers in
\* double arithmetic, so the integer ceilings below are the values returned.
estimateTokens(text) ==
    LET isCode == \E k \in 1..Len(codeIndicators) : Includes(text, codeIndicators[k])
    IN  IF isCode THEN (2 * Len(text) + 4) \div 5 ELSE (Len(text) + 3) \div 4

\* The reduce of estimateDiffTokens, in tenths of a token: a line that starts
\* with '+' or '-' weighs 1.2 estimates, any other line 1.  The code adds
\* doubles; for the patches of the model the double sum and the exact sum
\* have the same ceiling.
RECURSIVE diffTenths(_)
diffTenths(lines) ==
    IF lines = <<>> THEN 0
    ELSE LET line == Head(lines)
             w == IF StartsWith(line, <<"+">>) \/ StartsWith(line, <<"-">>) THEN 12 ELSE 10
         IN  w * estimateTokens(line) + diffTenths(Tail(lines))

\* estimateDiffTokens: Math.ceil of the weighted sum over the lines
estimateDiffTokens(diff) == (diffTenths(Split(diff, "\n")) + 9) \div 10

(***************************************************************************)
(* chunking/strategy.ts                                                    *)
(*                                                                         *)
(* A FileChange is [id, filename, changes, patch]; id stands for the       *)
(* identity of the JavaScript object (two records of one list may be equal *)
(* field by field and still be two files).  patch is [defined, text]:      *)
(* the optional property and its string.                                   *)
(***************************************************************************)
DEFAULT_MAX_TOKENS == 6000

\* the comparator handed to Array.prototype.sort
compareFiles(a, b) ==
    LET dirA == dirname(a.filename)
        dirB == dirname(b.filename)
        extA == extname(a.filename)
        extB == extname(b.filename)
    IN  IF dirA # dirB THEN localeCompare(dirA, dirB)
        ELSE IF extA # extB THEN localeCompare(extA, extB)
        ELSE localeCompare(a.filename, b.filename)

\* Variant of Insert: an unstable sort, x goes in front of the elements it
\* compares equal to.
RECURSIVE InsertUnstable(_, _)
InsertUnstable(x, s) ==
    IF s = <<>> THEN <<x>>
    ELSE IF compareFiles(x, Head(s)) <= 0 THEN <<x>> \o s
    ELSE <<Head(s)>> \o InsertUnstable(x, Tail(s))

\* One insertion of a stable sort: x goes behind every element that does not
\* compare greater than it.
RECURSIVE Insert(_, _)
Insert(x, s) ==
    IF s = <<>> THEN <<x>>
    ELSE IF compareFiles(x, Head(s)) < 0 THEN <<x>> \o s
    ELSE <<Head(s)>> \o Insert(x, Tail(s))

\* sortFilesByRelevance: Array.prototype.sort is stable; the array it returns
\* is the array it was given, reordered in place.
RECURSIVE sortFilesByRelevance(_)
sortFilesByRelevance(fs) ==
    IF fs = <<>> THEN <<>>
    ELSE Insert(fs[Len(fs)], sortFilesByRelevance(SubSeq(fs, 1, Len(fs) - 1)))

\* getModuleName
getModuleName(filepath) ==
    LET parts == Split(filepath, "/")
    IN  IF parts[1] = <<"s", "r", "c">> /\ Len(parts) > 2
        THEN <<"s", "r", "c", "/">> \o parts[2]
        ELSE IF Len(parts) > 1 THEN parts[1]
        ELSE <<"r", "o", "o", "t">>

\* sanitizeModuleName: every character outside [a-zA-Z0-9-] becomes '-';
\* toLowerCase changes nothing on the lower-case alphabet of the model.
sanitizeModuleName(name) ==
    [i \in 1..Len(name) |->
        IF name[i] \in {".", "/"} \/ name[i] \notin {Alphabet[k] : k \in 1..Len(Alphabet)}
        THEN "-" ELSE name[i]]

\* estimateFileTokens
estimateFileTokens(file) ==
    estimateTokens(file.filename) + 20
      + (IF file.patch.defined /\ file.patch.text # <<>>
         THEN estimateDiffTokens(file.patch.text)
         ELSE file.changes * 3)

\* estimateModuleTokens
RECURSIVE estimateModuleTokens(_)
estimateModuleTokens(fs) ==
    IF fs = <<>> THEN 0
    ELSE estimateFileTokens(Head(fs)) + estimateModuleTokens(Tail(fs))

\* files.reduce((sum, f) => sum + f.changes, 0)
RECURSIVE totalChanges(_)
totalChanges(fs) ==
    IF fs = <<>> THEN 0 ELSE Head(fs).changes + totalChanges(Tail(fs))

\* the chunk pushed by chunkBySize, as the n-th of its own result
sizeChunk(n, prefix, cur, tokens) ==
    [id |-> <<"c", "h", "u", "n", "k", "-">> \o Decimal(n)
              \o (IF prefix # <<>> THEN <<"-">> \o sanitizeModuleName(prefix) ELSE <<>>),
     files |-> cur,
     totalChanges |-> totalChanges(cur),
     estimatedTokens |-> tokens,
     reason |-> IF prefix # <<>>
                THEN <<"P", "a", "r", "t", " ", "o", "f", " ">> \o prefix
                ELSE <<"S", "i", "z", "e", "-", "b", "a", "s", "e", "d", " ",
                       "g", "r", "o", "u", "p", "i", "n", "g">>]

\* Variant of chunkBySizeStep: the new chunk starts with currentTokens = 0.
chunkBySizeStepNoReset(acc, file, maxTokens, prefix) ==
    LET fileTokens == estimateFileTokens(file)
    IN  IF acc.currentTokens + fileTokens > maxTokens /\ Len(acc.currentChunk) > 0
        THEN [chunks |-> Append(acc.chunks,
                           sizeChunk(Len(acc.chunks) + 1, prefix,
                                     acc.currentChunk, acc.currentTokens)),
              currentChunk |-> <<file>>,
              currentTokens |-> 0]
        ELSE [chunks |-> acc.chunks,
              currentChunk |-> Append(acc.currentChunk, file),
              currentTokens |-> acc.currentTokens + fileTokens]

\* Variant of chunkBySizeStep: the chunk is closed only once currentTokens
\* itself is over the budget.
chunkBySizeStepLateClose(acc, file, maxTokens, prefix) ==
    LET fileTokens == estimateFileTokens(file)
    IN  IF acc.currentTokens + fileTokens > maxTokens + fileTokens
              /\ Len(acc.currentChunk) > 0
        THEN [chunks |-> Append(acc.chunks,
                           sizeChunk(Len(acc.chunks) + 1, prefix,
                                     acc.currentChunk, acc.currentTokens)),
              currentChunk |-> <<file>>,
              currentTokens |-> fileTokens]
        ELSE [chunks |-> acc.chunks,
              currentChunk |-> Append(acc.currentChunk, file),
              currentTokens |-> acc.currentTokens + fileTokens]

\* Variant of chunkBySizeStep: a running chunk that has a file is closed at
\* every file, whether the file would fit or not.
chunkBySizeStepAlwaysClose(acc, file, maxTokens, prefix) ==
    LET fileTokens == estimateFileTokens(file)
    IN  IF Len(acc.currentChunk) > 0
        THEN [chunks |-> Append(acc.chunks,
                           sizeChunk(Len(acc.chunks) + 1, prefix,
                                     acc.currentChunk, acc.currentTokens)),
              currentChunk |-> <<file>>,
              currentTokens |-> fileTokens]
        ELSE [chunks |-> acc.chunks,
              currentChunk |-> Append(acc.currentChunk, file),
              currentTokens |-> acc.currentTokens + fileTokens]

\* one iteration of the for loop of chunkBySize
chunkBySizeStep(acc, file, maxTokens, prefix) ==
    LET fileTokens == estimateFileTokens(file)
    IN  IF acc.currentTokens + fileTokens > maxTokens /\ Len(acc.currentChunk) > 0
        THEN [chunks |-> Append(acc.chunks,
                           sizeChunk(Len(acc.chunks) + 1, prefix,
                                     acc.currentChunk, acc.currentTokens)),
              currentChunk |-> <<file>>,
              currentTokens |-> fileTokens]
        ELSE [chunks |-> acc.chunks,
              currentChunk |-> Append(acc.currentChunk, file),
              currentTokens |-> acc.currentTokens + fileTokens]

RECURSIVE chunkBySizeLoop(_, _, _, _)
chunkBySizeLoop(acc, fs, maxTokens, prefix) ==
    IF fs = <<>> THEN acc
    ELSE chunkBySizeLoop(chunkBySizeStep(acc, Head(fs), maxTokens, prefix),
                         Tail(fs), maxTokens, prefix)

\* Variant of chunkBySize: the running chunk is not pushed after the loop.
chunkBySizeNoFlush(fs, maxTokens, prefix) ==
    chunkBySizeLoop([chunks |-> <<>>, currentChunk |-> <<>>,
                     currentTokens |-> 0], fs, maxTokens, prefix).chunks

\* chunkBySize
chunkBySize(fs, maxTokens, prefix) ==
    LET acc == chunkBySizeLoop([chunks |-> <<>>, currentChunk |-> <<>>,
                                currentTokens |-> 0], fs, maxTokens, prefix)
    IN  IF Len(acc.currentChunk) > 0
        THEN Append(acc.chunks,
                    sizeChunk(Len(acc.chunks) + 1, prefix,
                              acc.currentChunk, acc.currentTokens))
        ELSE acc.chunks

\* Variant of groupFilesByModule: a file joins the last entry only, so a module
\* whose files are not neighbours in the array gets more than one entry.
RECURSIVE groupFilesByModuleAdjacent(_)
groupFilesByModuleAdjacent(fs) ==
    IF fs = <<>> THEN <<>>
    ELSE LET rest == groupFilesByModuleAdjacent(SubSeq(fs, 1, Len(fs) - 1))
             file == fs[Len(fs)]
             module == getModuleName(file.filename)
         IN  IF rest # <<>> /\ rest[Len(rest)].module = module
             THEN [k \in 1..Len(rest) |->
                     IF k = Len(rest)
                     THEN [module |-> module, files |-> Append(rest[k].files, file)]
                     ELSE rest[k]]
             ELSE Append(rest, [module |-> module, files |-> <<file>>])

\* groupFilesByModule: the Map as the sequence of its entries, in insertion
\* order
RECURSIVE groupFilesByModule(_)
groupFilesByModule(fs) ==
    IF fs = <<>> THEN <<>>
    ELSE LET rest == groupFilesByModule(SubSeq(fs, 1, Len(fs) - 1))
             file == fs[Len(fs)]
             module == getModuleName(file.filename)
         IN  IF \E k \in 1..Len(rest) : rest[k].module = module
             THEN [k \in 1..Len(rest) |->
                     IF rest[k].module = module
                     THEN [module |-> module, files |-> Append(rest[k].files, file)]
                     ELSE rest[k]]
             ELSE Append(rest, [module |-> module, files |-> <<file>>])

\* the chunk pushed by chunkByModule for a module that fits
moduleChunk(n, module, moduleFiles, moduleTokens) ==
    [id |-> <<"c", "h", "u", "n", "k", "-">> \o Decimal(n) \o <<"-">>
              \o sanitizeModuleName(module),
     files |-> moduleFiles,
     totalChanges |-> totalChanges(moduleFiles),
     estimatedTokens |-> moduleTokens,
     reason |-> <<"M", "o", "d", "u", "l", "e", ":", " ">> \o module]

\* the for loop of chunkByModule over the entries of the Map
RECURSIVE chunkByModuleLoop(_, _, _)
chunkByModuleLoop(acc, entries, maxTokens) ==
    IF entries = <<>> THEN acc
    ELSE LET module == Head(entries).module
             moduleFiles == Head(entries).files
             moduleTokens == estimateModuleTokens(moduleFiles)
             next == IF moduleTokens <= maxTokens
                     THEN Append(acc, moduleChunk(Len(acc) + 1, module,
                                                  moduleFiles, moduleTokens))
                     ELSE acc \o chunkBySize(moduleFiles, maxTokens, module)
         IN  chunkByModuleLoop(next, Tail(entries), maxTokens)

\* chunkByModule
chunkByModule(fs, strat) ==
    chunkByModuleLoop(<<>>, groupFilesByModule(fs), strat.maxTokensPerChunk)

\* createChunks, given the array as sortFilesByRelevance left it
createChunks(sortedFiles, strat) ==
    IF strat.groupByModule
    THEN chunkByModule(sortedFiles, strat)
    ELSE chunkBySize(sortedFiles, strat.maxTokensPerChunk, <<>>)

(***************************************************************************)
(* The caller of createChunks: it builds a file list and a strategy and    *)
(* calls createChunks on that same array, possibly more than once.         *)
(***************************************************************************)
NoPatch == [defined |-> FALSE, text |-> <<>>]
Patch(text) == [defined |-> TRUE, text |-> text]

\* The file changes a list is drawn from: a root-level file, two files of one
\* name and different size (one of them far over any budget), a module whose
\* directories are not adjacent in the sort order ('src/m', 'src/m/sub' with
\* 'src/m-x' between them), patches with and without text, a name that
\* contains a code keyword.
FileShapes ==
    { [filename |-> <<"a", ".", "t", "s">>, changes |-> 0, patch |-> NoPatch],
      [filename |-> <<"s", "r", "c", "/", "m", "/", "a", ".", "t", "s">>,
       changes |-> 2, patch |-> NoPatch],
      [filename |-> <<"s", "r", "c", "/", "m", "/", "a", ".", "t", "s">>,
       changes |-> 3000, patch |-> NoPatch],
      [filename |-> <<"s", "r", "c", "/", "m", "-", "x", "/", "b", ".", "t", "s">>,
       changes |-> 1, patch |-> Patch(<<"+", "a", "b", "\n", " ", "c", "d">>)],
      [filename |-> <<"s", "r", "c", "/", "m", "/", "s", "u", "b", "/", "c", ".", "j", "s">>,
       changes |-> 0, patch |-> Patch(<<>>)],
      [filename |-> <<"s", "r", "c", "-", "m", "/", "a", ".", "t", "s">>,
       changes |-> 1, patch |-> Patch(<<"-", "f", "(", ")", ";">>)],
      [filename |-> <<"l", "i", "b", "/", "l", "e", "t", ".", "t", "s">>,
       changes |-> 5, patch |-> NoPatch] }

Budgets == {30, 50, DEFAULT_MAX_TOKENS}

FileLists ==
    UNION { [1..n -> FileShapes] : n \in 0..MaxFiles }

WithIds(shapes) ==
    [i \in 1..Len(shapes) |->
        [id |-> i, filename |-> shapes[i].filename,
         changes |-> shapes[i].changes, patch |-> shapes[i].patch]]

InitChunks ==
    /\ input \in {WithIds(l) : l \in FileLists}
    /\ files = input
    /\ strategy \in [maxTokensPerChunk : Budgets, groupByModule : BOOLEAN]
    /\ chunks = <<>>
    /\ prevChunks = <<>>
    /\ runs = 0
    /\ GraphIdle
    /\ TokensIdle
    /\ ExtractIdle
    /\ ToolsIdle
    /\ ReviewIdle

\* One call createChunks(files, strategy): the sort reorders the caller's
\* array in place, the chunks are cut from the sorted array.
CreateChunks ==
    /\ runs < MaxRuns
    /\ files' = sortFilesByRelevance(files)
    /\ chunks' = createChunks(files', strategy)
    /\ prevChunks' = chunks
    /\ runs' = runs + 1
    /\ UNCHANGED <<input, strategy>>
    /\ UNCHANGED <<graphVars, tokenVars, extractVars, toolVars, reviewVars>>

NextChunks == CreateChunks

SpecChunks == InitChunks /\ [][NextChunks]_vars

(***************************************************************************)
(* Properties of the chunk partitioner.                                    *)
(***************************************************************************)
Budget == strategy.maxTokensPerChunk

RECURSIVE Flatten(_)
Flatten(cs) == IF cs = <<>> THEN <<>> ELSE Head(cs).files \o Flatten(Tail(cs))

\* position of a file object in the caller's array
PosInFiles(f) == CHOOSE i \in 1..Len(files) : files[i].id = f.id

RECURSIVE SumOfFileEstimates(_)
SumOfFileEstimates(fs) ==
    IF fs = <<>> THEN 0
    ELSE estimateFileTokens(Head(fs)) + SumOfFileEstimates(Tail(fs))

\* the array is the input ordered by (directory, extension, filename)
FilesAreSortedInput ==
    /\ Len(files) = Len(input)
    /\ \A i \in 1..Len(input) : \E j \in 1..Len(files) : files[j] = input[i]
    /\ \A i, j \in 1..Len(files) : i < j => compareFiles(files[i], files[j]) <= 0

\* C1: after createChunks, in either mode and for every budget, the chunks
\* partition the input (every input file object is in exactly one chunk, and
\* nothing else is in any chunk), and inside each chunk the files stand in the
\* order they have in the (directory, extension, filename)-sorted input.
C1_PartitionLaw ==
    runs >= 1 =>
        LET all == Flatten(chunks)
        IN  /\ FilesAreSortedInput
            /\ Len(all) = Len(input)
            /\ \A i \in 1..Len(input) :
                   Cardinality({k \in 1..Len(all) : all[k].id = i}) = 1
            /\ \A k \in 1..Len(all) :
                   all[k].id \in 1..Len(input) /\ all[k] = input[all[k].id]
            /\ \A c \in 1..Len(chunks) :
                   \A i, j \in 1..Len(chunks[c].files) :
                       i < j => PosInFiles(chunks[c].files[i]) < PosInFiles(chunks[c].files[j])

\* a module was split by size, another was emitted whole, and one chunk holds
\* two files that are not neighbours in the sorted array
C1_Witness ==
    /\ runs >= 1
    /\ strategy.groupByModule
    /\ Len(input) = MaxFiles
    /\ files # input
    /\ \E c \in 1..Len(chunks) :
           /\ Len(chunks[c].files) = 2
           /\ PosInFiles(chunks[c].files[2]) > PosInFiles(chunks[c].files[1]) + 1

\* C2: a chunk whose estimatedTokens exceeds the budget holds exactly one
\* file; a file whose own cost exceeds the budget is alone in its chunk and is
\* in some chunk; a list of one over-budget file gives one chunk holding it.
C2_OversizedAlone ==
    runs >= 1 =>
        /\ \A c \in 1..Len(chunks) :
               /\ chunks[c].estimatedTokens > Budget => Len(chunks[c].files) = 1
               /\ \A i \in 1..Len(chunks[c].files) :
                      estimateFileTokens(chunks[c].files[i]) > Budget
                          => Len(chunks[c].files) = 1
        /\ \A i \in 1..Len(input) :
               estimateFileTokens(input[i]) > Budget
                   => \E c \in 1..Len(chunks) : chunks[c].files = <<input[i]>>
        /\ (Len(input) = 1 /\ estimateFileTokens(input[1]) > Budget)
               => (Len(chunks) = 1 /\ chunks[1].files = input)

\* an over-budget file between two chunks of files that fit, budget 6000
C2_Witness ==
    /\ runs >= 1
    /\ Budget = DEFAULT_MAX_TOKENS
    /\ Len(chunks) = 3
    /\ chunks[2].estimatedTokens > Budget
    /\ Len(chunks[2].files) = 1
    /\ chunks[1].estimatedTokens <= Budget
    /\ chunks[3].estimatedTokens <= Budget

\* C3: the estimatedTokens of every chunk is non-negative and at least the sum
\* of estimateFileTokens over the files of the chunk.
C3_EstimateCoversFiles ==
    runs >= 1 =>
        \A c \in 1..Len(chunks) :
            /\ chunks[c].estimatedTokens >= 0
            /\ chunks[c].estimatedTokens >= SumOfFileEstimates(chunks[c].files)

\* a size split closed one chunk and opened the next
C3_Witness ==
    /\ runs >= 1
    /\ \E c \in 1..Len(chunks) :
           /\ c > 1
           /\ chunks[c].reason # chunks[1].reason
           /\ Len(chunks[c].files) = 2
           /\ chunks[c].estimatedTokens > 0

\* C4: a second createChunks call on the same array (as the first call left
\* it) with the same strategy returns a chunk list equal to the first one: ids,
\* files and their order, estimatedTokens and reasons.
C4_Idempotent ==
    runs >= 2 => chunks = prevChunks

\* the first call reordered the array, two files of the list have one name,
\* and the second call has returned
C4_Witness ==
    /\ runs >= 2
    /\ files # input
    /\ Len(chunks) >= 2
    /\ \E i, j \in 1..Len(files) :
           i # j /\ files[i].filename = files[j].filename /\ files[i] # files[j]
           /\ files[i].changes # files[j].changes

\* the module key of a file
ModuleOf(f) == getModuleName(f.filename)

\* a chunk may be closed only when the first file of the next one did not fit
ClosedOnlyWhenFull(cs) ==
    \A i \in 1..(Len(cs) - 1) :
        cs[i].estimatedTokens + estimateFileTokens(cs[i + 1].files[1]) > Budget

\* C22: with groupByModule true every chunk holds files of exactly one module
\* key; a module whose summed file cost is within the budget gives exactly one
\* chunk, with all of its files and the reason 'Module: X'; a module over the
\* budget is packed greedily on its own files, giving chunks with the reason
\* 'Part of X' that hold no file of another module.
C22_OneModulePerChunk ==
    (runs >= 1 /\ strategy.groupByModule) =>
        /\ \A c \in 1..Len(chunks) :
               /\ Len(chunks[c].files) >= 1
               /\ \A i \in 1..Len(chunks[c].files) :
                      ModuleOf(chunks[c].files[i]) = ModuleOf(chunks[c].files[1])
        /\ \A m \in {ModuleOf(input[i]) : i \in 1..Len(input)} :
               LET own == SelectSeq(files, LAMBDA f : ModuleOf(f) = m)
                   cs == SelectSeq(chunks, LAMBDA c : ModuleOf(c.files[1]) = m)
                   cost == SumOfFileEstimates(own)
               IN  /\ Flatten(cs) = own
                   /\ IF cost <= Budget
                      THEN /\ Len(cs) = 1
                           /\ cs[1].estimatedTokens = cost
                           /\ cs[1].reason = <<"M", "o", "d", "u", "l", "e", ":", " ">> \o m
                      ELSE /\ ClosedOnlyWhenFull(cs)
                           /\ \A i \in 1..Len(cs) :
                                  /\ cs[i].reason
                                       = <<"P", "a", "r", "t", " ", "o", "f", " ">> \o m
                                  /\ cs[i].estimatedTokens = SumOfFileEstimates(cs[i].files)
                                  /\ Len(cs[i].files) > 1 => cs[i].estimatedTokens <= Budget

\* one module was split by size into two chunks and another module, whose
\* files fit, was emitted as one chunk
C22_Witness ==
    /\ runs >= 1
    /\ strategy.groupByModule
    /\ \E a, b, c \in 1..Len(chunks) :
           /\ a # b
           /\ ModuleOf(chunks[a].files[1]) = ModuleOf(chunks[b].files[1])
           /\ StartsWith(chunks[a].reason, <<"P", "a", "r", "t">>)
           /\ StartsWith(chunks[b].reason, <<"P", "a", "r", "t">>)
           /\ StartsWith(chunks[c].reason, <<"M", "o", "d", "u", "l", "e">>)

\* C23: in size-only mode the files of the chunks, one chunk after the other,
\* are the sorted input, and for every two consecutive chunks the
\* estimatedTokens of the first plus the cost of the first file of the second
\* exceeds the budget; three files of one cost, two of which fit the budget
\* and three of which do not, give the chunks [file1, file2] and [file3].
C23_GreedyPacking ==
    (runs >= 1 /\ ~strategy.groupByModule) =>
        /\ FilesAreSortedInput
        /\ Flatten(chunks) = files
        /\ ClosedOnlyWhenFull(chunks)
        /\ (/\ Len(files) = 3
            /\ \A i \in 1..3 : estimateFileTokens(files[i]) = estimateFileTokens(files[1])
            /\ 2 * estimateFileTokens(files[1]) <= Budget
            /\ 3 * estimateFileTokens(files[1]) > Budget)
               => /\ Len(chunks) = 2
                  /\ chunks[1].files = SubSeq(files, 1, 2)
                  /\ chunks[2].files = <<files[3]>>
                  /\ chunks[1].estimatedTokens = 2 * estimateFileTokens(files[1])

\* three files of one cost, budget between twice and three times the cost,
\* packed by size into two chunks
C23_Witness ==
    /\ runs >= 1
    /\ ~strategy.groupByModule
    /\ Len(files) = 3
    /\ \A i \in 1..3 : estimateFileTokens(files[i]) = estimateFileTokens(files[1])
    /\ 2 * estimateFileTokens(files[1]) <= Budget
    /\ 3 * estimateFileTokens(files[1]) > Budget
    /\ Len(chunks) = 2
    /\ Len(chunks[1].files) = 2

\* C26: the ids of the chunks of one createChunks result are pairwise
\* distinct, in both modes.
C26_ChunkIdsDistinct ==
    runs >= 1 =>
        \A a, b \in 1..Len(chunks) : a # b => chunks[a].id # chunks[b].id

\* in size-only mode the ids are chunk-1, chunk-2, ... and pairwise distinct
SizeOnlyIdsDistinct ==
    (runs >= 1 /\ ~strategy.groupByModule) =>
        \A a \in 1..Len(chunks) :
            chunks[a].id = <<"c", "h", "u", "n", "k", "-">> \o Decimal(a)

\* C27: createChunks leaves its argument as it was: after the call the
\* caller's array holds the same elements in the same order as before.
C27_ArgumentUnchanged ==
    runs >= 1 => files = input

(***************************************************************************)
(* analysis/call-graph.ts                                                  *)
(*                                                                         *)
(* fileAnalysis is the Map handed to buildCallGraph, as the sequence of    *)
(* its entries in insertion order: [file, functions, dependencies].  A     *)
(* function fact is [name, line, calls] with calls = [defined, names] (the *)
(* property is optional); a dependency fact is [source, isExternal].  The  *)
(* graph is the Map from key strings to nodes, as a function on the set of *)
(* its keys.                                                               *)
(***************************************************************************)

\* `${file}:${name}`
Key(file, name) == file \o <<":">> \o name

\* Map.prototype.has / get / set on the graph
MapHas(g, k) == k \in DOMAIN g
MapSet(g, k, v) == [x \in (DOMAIN g) \cup {k} |-> IF x = k THEN v ELSE g[x]]

\* fileAnalysis.get(file): the entry, when there is one
HasAnalysis(fa, file) == \E i \in 1..Len(fa) : fa[i].file = file
GetAnalysis(fa, file) == fa[CHOOSE i \in 1..Len(fa) : fa[i].file = file]

\* resolveImportPath
RECURSIVE resolveParts(_, _)
resolveParts(dirParts, parts) ==
    IF parts = <<>> THEN dirParts
    ELSE LET part == Head(parts)
             next == IF part = <<".">> THEN dirParts
                     ELSE IF part = <<".", ".">>
                          THEN (IF dirParts = <<>> THEN <<>>
                                ELSE SubSeq(dirParts, 1, Len(dirParts) - 1))
                          ELSE Append(dirParts, part)
         IN  resolveParts(next, Tail(parts))

resolveImportPath(importPath, currentFile) ==
    IF StartsWith(importPath, <<".">>)
    THEN LET fileParts == Split(currentFile, "/")
             currentDir == Join(SubSeq(fileParts, 1, Len(fileParts) - 1), "/")
             parts == Split(importPath, "/")
             dirParts == Split(currentDir, "/")
         IN  Join(resolveParts(dirParts, parts), "/")
    ELSE importPath

\* the for loop of findFunctionInImports over analysis.dependencies
RECURSIVE findInDeps(_, _, _, _)
findInDeps(deps, funcName, currentFile, fa) ==
    IF deps = <<>> THEN [found |-> FALSE, file |-> <<>>]
    ELSE LET dep == Head(deps)
             depFile == resolveImportPath(dep.source, currentFile)
         IN  IF dep.isExternal
             THEN findInDeps(Tail(deps), funcName, currentFile, fa)
             ELSE IF HasAnalysis(fa, depFile)
                     /\ \E i \in 1..Len(GetAnalysis(fa, depFile).functions) :
                            GetAnalysis(fa, depFile).functions[i].name = funcName
                  THEN [found |-> TRUE, file |-> depFile]
                  ELSE findInDeps(Tail(deps), funcName, currentFile, fa)

\* findFunctionInImports: [found, file] for { file, func } | null
findFunctionInImports(funcName, currentFile, fa) ==
    IF ~HasAnalysis(fa, currentFile) THEN [found |-> FALSE, file |-> <<>>]
    ELSE findInDeps(GetAnalysis(fa, currentFile).dependencies, funcName, currentFile, fa)

\* Variant of addNodes: a key the graph already has is not set again.
RECURSIVE addNodesKeepFirst(_, _, _)
addNodesKeepFirst(g, file, funcs) ==
    IF funcs = <<>> THEN g
    ELSE addNodesKeepFirst(
             IF MapHas(g, Key(file, Head(funcs).name)) THEN g
             ELSE MapSet(g, Key(file, Head(funcs).name),
                         [name |-> Head(funcs).name, file |-> file,
                          line |-> Head(funcs).line,
                          callers |-> <<>>, callees |-> <<>>]),
             file, Tail(funcs))

\* first pass of buildCallGraph: one graph.set per function fact
RECURSIVE addNodes(_, _, _)
addNodes(g, file, funcs) ==
    IF funcs = <<>> THEN g
    ELSE addNodes(MapSet(g, Key(file, Head(funcs).name),
                         [name |-> Head(funcs).name, file |-> file,
                          line |-> Head(funcs).line,
                          callers |-> <<>>, callees |-> <<>>]),
                  file, Tail(funcs))

RECURSIVE firstPass(_, _)
firstPass(g, entries) ==
    IF entries = <<>> THEN g
    ELSE firstPass(addNodes(g, Head(entries).file, Head(entries).functions),
                   Tail(entries))

\* Variant of pushEdge: the edge is pushed to the callee list only.
pushEdgeCalleesOnly(g, edge) ==
    [k \in DOMAIN g |->
        [g[k] EXCEPT !.callees = IF k = edge.from THEN Append(@, edge) ELSE @]]

\* callerNode.callees.push(edge); calleeNode.callers.push(edge)
pushEdge(g, edge) ==
    [k \in DOMAIN g |->
        [g[k] EXCEPT
            !.callees = IF k = edge.from THEN Append(@, edge) ELSE @,
            !.callers = IF k = edge.to THEN Append(@, edge) ELSE @]]

\* Variant of resolveCall: the imports are searched before the same file.
resolveCallImportsFirst(g, fa, file, calledFunc) ==
    LET imported == findFunctionInImports(calledFunc, file, fa)
    IN  IF imported.found THEN Key(imported.file, calledFunc)
        ELSE Key(file, calledFunc)

\* the key the call resolves to: the same file first, then the imports
resolveCall(g, fa, file, calledFunc) ==
    IF MapHas(g, Key(file, calledFunc)) THEN Key(file, calledFunc)
    ELSE LET imported == findFunctionInImports(calledFunc, file, fa)
         IN  IF imported.found THEN Key(imported.file, calledFunc)
             ELSE Key(file, calledFunc)

\* Variant of addCall: the edge is pushed whether or not a callee node was
\* found.
addCallUnchecked(g, fa, file, func, calledFunc) ==
    pushEdge(g, [from |-> Key(file, func.name),
                 to |-> resolveCall(g, fa, file, calledFunc),
                 file |-> file, line |-> func.line])

\* body of the loop over func.calls
addCall(g, fa, file, func, calledFunc) ==
    LET calleeKey == resolveCall(g, fa, file, calledFunc)
    IN  IF MapHas(g, calleeKey)
        THEN pushEdge(g, [from |-> Key(file, func.name), to |-> calleeKey,
                          file |-> file, line |-> func.line])
        ELSE g

RECURSIVE addCalls(_, _, _, _, _)
addCalls(g, fa, file, func, calls) ==
    IF calls = <<>> THEN g
    ELSE addCalls(addCall(g, fa, file, func, Head(calls)), fa, file, func, Tail(calls))

\* second pass, one file: the loop over analysis.functions
RECURSIVE addFunctionEdges(_, _, _, _)
addFunctionEdges(g, fa, file, funcs) ==
    IF funcs = <<>> THEN g
    ELSE LET func == Head(funcs)
             next == IF ~MapHas(g, Key(file, func.name)) \/ ~func.calls.defined
                     THEN g
                     ELSE addCalls(g, fa, file, func, func.calls.names)
         IN  addFunctionEdges(next, fa, file, Tail(funcs))

RECURSIVE secondPass(_, _, _)
secondPass(g, fa, entries) ==
    IF entries = <<>> THEN g
    ELSE secondPass(addFunctionEdges(g, fa, Head(entries).file, Head(entries).functions),
                    fa, Tail(entries))

\* buildCallGraph
buildCallGraph(fa) == secondPass(firstPass(<<>>, fa), fa, fa)

\* findCallers / findCallees: node?.callers || []
findCallers(funcName, file, g) ==
    IF MapHas(g, Key(file, funcName)) THEN g[Key(file, funcName)].callers ELSE <<>>

findCallees(funcName, file, g) ==
    IF MapHas(g, Key(file, funcName)) THEN g[Key(file, funcName)].callees ELSE <<>>

\* Variant of skipItem: the guard without visited.has(key).
skipItemDepthOnly(vis, item, maxDepth) == item.depth >= maxDepth

\* the guard of both traversal loops: visited.has(key) || depth >= maxDepth
skipItem(vis, item, maxDepth) == item.key \in vis \/ item.depth >= maxDepth

\* findDependencies: the for loop over node.callees
RECURSIVE pushCallees(_, _, _, _)
pushCallees(q, edges, vis, depth) ==
    IF edges = <<>> THEN q
    ELSE pushCallees(IF Head(edges).to \notin vis
                     THEN Append(q, [key |-> Head(edges).to, depth |-> depth + 1])
                     ELSE q,
                     Tail(edges), vis, depth)

\* Variant of dependenciesResult: the start key is not deleted.
dependenciesResultKeepStart(vis, startKey) == vis

\* findDependencies: visited.delete(start); return visited
dependenciesResult(vis, startKey) == vis \ {startKey}

\* Set.prototype.add on a Set kept as the sequence of its elements
SetAdd(seq, x) == IF \E i \in 1..Len(seq) : seq[i] = x THEN seq ELSE Append(seq, x)

\* Variant of impactVisitEdge: edge.from is pushed to directCallers at every
\* depth.
impactVisitEdgeAnyDepth(acc, edge, vis, depth) ==
    LET direct == Append(acc.directCallers, edge.from)
    IN  IF edge.from \notin vis
        THEN [directCallers |-> direct,
              allCallers |-> SetAdd(acc.allCallers, edge.from),
              impactedFiles |-> acc.impactedFiles \cup {edge.file},
              queue |-> Append(acc.queue, [key |-> edge.from, depth |-> depth + 1])]
        ELSE [acc EXCEPT !.directCallers = direct]

\* Variant of impactVisitEdge: callers are recorded and queued at depth 0 only.
impactVisitEdgeDirectOnly(acc, edge, vis, depth) ==
    LET direct == IF depth = 0 THEN Append(acc.directCallers, edge.from)
                  ELSE acc.directCallers
    IN  IF edge.from \notin vis /\ depth = 0
        THEN [directCallers |-> direct,
              allCallers |-> SetAdd(acc.allCallers, edge.from),
              impactedFiles |-> acc.impactedFiles \cup {edge.file},
              queue |-> Append(acc.queue, [key |-> edge.from, depth |-> depth + 1])]
        ELSE [acc EXCEPT !.directCallers = direct]

\* getImpactAnalysis: body of the for loop over node.callers
impactVisitEdge(acc, edge, vis, depth) ==
    LET direct == IF depth = 0 THEN Append(acc.directCallers, edge.from)
                  ELSE acc.directCallers
    IN  IF edge.from \notin vis
        THEN [directCallers |-> direct,
              allCallers |-> SetAdd(acc.allCallers, edge.from),
              impactedFiles |-> acc.impactedFiles \cup {edge.file},
              queue |-> Append(acc.queue, [key |-> edge.from, depth |-> depth + 1])]
        ELSE [acc EXCEPT !.directCallers = direct]

RECURSIVE impactVisitEdges(_, _, _, _)
impactVisitEdges(acc, edges, vis, depth) ==
    IF edges = <<>> THEN acc
    ELSE impactVisitEdges(impactVisitEdge(acc, Head(edges), vis, depth),
                          Tail(edges), vis, depth)

(***************************************************************************)
(* One request: the facts of the changed files are collected, the graph is *)
(* built from them, and queries are answered on that graph.  The loops of  *)
(* findDependencies and getImpactAnalysis advance one iteration per step.  *)
(***************************************************************************)
Calls(names) == [defined |-> TRUE, names |-> names]
NoCalls == [defined |-> FALSE, names |-> <<>>]
Fn(name, line, calls) == [name |-> name, line |-> line, calls |-> calls]
\* an import declaration: isExternal = !source.startsWith('.')
Import(source) == [source |-> source, isExternal |-> ~StartsWith(source, <<".">>)]
\* a dynamic import: isExternal = true
DynamicImport(source) == [source |-> source, isExternal |-> TRUE]

File_m == <<"m">>
File_a == <<"p", "/", "a">>
File_b == <<"p", "/", "b">>
File_c == <<"p", "/", "c">>

\* The facts of four files.  'm' lies in the root directory.  p/a declares f
\* and g, p/b declares g and h, p/c declares h twice and k, so a name can be
\* declared in the caller's file and in an import, or in two imports; 'z' is
\* declared nowhere.  The call lists of the functions and the order of the
\* imports of p/a vary.
Facts(af, ag, bg, bh, ch, ck, aDeps) ==
    << [file |-> File_m,
        functions |-> << Fn(<<"m", "a", "i", "n">>, 1, Calls(<< <<"f">> >>)) >>,
        dependencies |-> << Import(<<".", "/", "p", "/", "a">>) >>],
       [file |-> File_a,
        functions |-> << Fn(<<"f">>, 1, af), Fn(<<"g">>, 5, ag) >>,
        dependencies |-> aDeps],
       [file |-> File_b,
        functions |-> << Fn(<<"g">>, 2, bg), Fn(<<"h">>, 7, bh) >>,
        dependencies |-> << Import(<<".", "/", "c">>), Import(<<".", "/", "a">>) >>],
       [file |-> File_c,
        functions |-> << Fn(<<"h">>, 3, ch), Fn(<<"k">>, 4, ck),
                         Fn(<<"h">>, 9, Calls(<< <<"k">> >>)) >>,
        dependencies |-> << DynamicImport(<<".", "/", "b">>),
                            Import(<<".", "/", "a">>) >>] >>

FactsInputs ==
    { Facts(af, ag, bg, bh, ch, ck, aDeps) :
        af \in { Calls(<< <<"g">> >>), Calls(<< <<"h">>, <<"f">>, <<"z">> >>), NoCalls },
        ag \in { Calls(<< <<"f">> >>), Calls(<< <<"k">>, <<"h">> >>) },
        bg \in { Calls(<< <<"f">> >>), Calls(<< <<"h">>, <<"z">> >>) },
        bh \in { Calls(<< <<"k">> >>), Calls(<< <<"g">>, <<"f">> >>) },
        ch \in { Calls(<< <<"f">> >>), Calls(<<>>) },
        ck \in { Calls(<< <<"h">> >>), Calls(<< <<"g">>, <<"k">> >>) },
        aDeps \in { << Import(<<".", "/", "b">>), Import(<<"l", "i", "b">>),
                       Import(<<".", ".", "/", "p", "/", "c">>) >>,
                    << Import(<<".", ".", "/", "p", "/", "c">>),
                       Import(<<".", "/", "b">>) >> } }

\* the (file, name) pairs a query is asked for: every node, and keys that are
\* in no graph
QueryFiles == {File_a, File_b, File_c}
QueryNames == { <<"f">>, <<"g">>, <<"h">>, <<"k">> }
DepthArgs == (0..MaxDepthArg) \cup {10}

InitGraph ==
    /\ fileAnalysis \in FactsInputs
    /\ graph = <<>>
    /\ pc = "facts"
    /\ query = NoQuery
    /\ queue = <<>>
    /\ visited = {}
    /\ directCallers = <<>>
    /\ allCallers = <<>>
    /\ impactedFiles = {}
    /\ maxDepthReached = 0
    /\ result = NoResult
    /\ expanded = <<>>
    /\ ChunksIdle
    /\ TokensIdle
    /\ ExtractIdle
    /\ ToolsIdle
    /\ ReviewIdle

BuildCallGraph ==
    /\ pc = "facts"
    /\ graph' = buildCallGraph(fileAnalysis)
    /\ pc' = "ready"
    /\ UNCHANGED <<fileAnalysis, query, queue, visited, directCallers, allCallers,
                   impactedFiles, maxDepthReached, result, expanded>>
    /\ UNCHANGED <<chunkVars, tokenVars, extractVars, toolVars, reviewVars>>

QueryKey == Key(query.file, query.name)

\* the locals of a traversal as its first statements leave them
StartTraversal(kind, file, name, maxDepth) ==
    /\ pc = "ready"
    /\ query' = [kind |-> kind, file |-> file, name |-> name, maxDepth |-> maxDepth]
    /\ queue' = << [key |-> Key(file, name), depth |-> 0] >>
    /\ visited' = {}
    /\ directCallers' = <<>>
    /\ allCallers' = <<>>
    /\ impactedFiles' = {}
    /\ maxDepthReached' = 0
    /\ result' = NoResult
    /\ expanded' = <<>>
    /\ UNCHANGED <<fileAnalysis, graph>>
    /\ UNCHANGED <<chunkVars, tokenVars, extractVars, toolVars, reviewVars>>

\* findCallers(name, file, graph) and findCallees(name, file, graph)
FindEdges ==
    \E kind \in {"callers", "callees"}, file \in QueryFiles, name \in QueryNames :
        /\ pc = "ready"
        /\ query' = [kind |-> kind, file |-> file, name |-> name, maxDepth |-> 0]
        /\ result' = [NoResult EXCEPT
                        !.returned = TRUE,
                        !.edges = IF kind = "callers"
                                  THEN findCallers(name, file, graph)
                                  ELSE findCallees(name, file, graph)]
        /\ pc' = "done"
        /\ queue' = <<>>
        /\ visited' = {}
        /\ directCallers' = <<>>
        /\ allCallers' = <<>>
        /\ impactedFiles' = {}
        /\ maxDepthReached' = 0
        /\ expanded' = <<>>
        /\ UNCHANGED <<fileAnalysis, graph>>
        /\ UNCHANGED <<chunkVars, tokenVars, extractVars, toolVars, reviewVars>>

\* findDependencies(name, file, graph, maxDepth) is called
DependenciesCall ==
    \E file \in QueryFiles, name \in QueryNames, maxDepth \in DepthArgs :
        /\ StartTraversal("deps", file, name, maxDepth)
        /\ pc' = "deps"

\* one iteration of the while loop of findDependencies
DependenciesStep ==
    /\ pc = "deps"
    /\ queue # <<>>
    /\ LET item == Head(queue)
       IN  IF skipItem(visited, item, query.maxDepth)
           THEN /\ queue' = Tail(queue)
                /\ UNCHANGED <<visited, expanded>>
           ELSE /\ visited' = visited \cup {item.key}
                /\ expanded' = Append(expanded, item.key)
                /\ queue' = IF MapHas(graph, item.key)
                            THEN pushCallees(Tail(queue), graph[item.key].callees,
                                             visited', item.depth)
                            ELSE Tail(queue)
    /\ UNCHANGED <<fileAnalysis, graph, pc, query, directCallers, allCallers,
                   impactedFiles, maxDepthReached, result>>
    /\ UNCHANGED <<chunkVars, tokenVars, extractVars, toolVars, reviewVars>>

\* the queue is empty: findDependencies returns
DependenciesReturn ==
    /\ pc = "deps"
    /\ queue = <<>>
    /\ result' = [NoResult EXCEPT !.returned = TRUE,
                                  !.keys = dependenciesResult(visited, QueryKey)]
    /\ pc' = "done"
    /\ UNCHANGED <<fileAnalysis, graph, query, queue, visited, directCallers,
                   allCallers, impactedFiles, maxDepthReached, expanded>>
    /\ UNCHANGED <<chunkVars, tokenVars, extractVars, toolVars, reviewVars>>

\* getImpactAnalysis(name, file, graph, maxDepth) is called
ImpactCall ==
    \E file \in QueryFiles, name \in QueryNames, maxDepth \in DepthArgs :
        /\ StartTraversal("impact", file, name, maxDepth)
        /\ pc' = "impact"

\* one iteration of the while loop of getImpactAnalysis
ImpactStep ==
    /\ pc = "impact"
    /\ queue # <<>>
    /\ LET item == Head(queue)
       IN  IF skipItem(visited, item, query.maxDepth)
           THEN /\ queue' = Tail(queue)
                /\ UNCHANGED <<visited, expanded, maxDepthReached, directCallers,
                               allCallers, impactedFiles>>
           ELSE /\ visited' = visited \cup {item.key}
                /\ expanded' = Append(expanded, item.key)
                /\ maxDepthReached' = Max(maxDepthReached, item.depth)
                /\ LET acc == IF MapHas(graph, item.key)
                              THEN impactVisitEdges(
                                     [directCallers |-> directCallers,
                                      allCallers |-> allCallers,
                                      impactedFiles |-> impactedFiles,
                                      queue |-> Tail(queue)],
                                     graph[item.key].callers, visited', item.depth)
                              ELSE [directCallers |-> directCallers,
                                    allCallers |-> allCallers,
                                    impactedFiles |-> impactedFiles,
                                    queue |-> Tail(queue)]
                   IN  /\ directCallers' = acc.directCallers
                       /\ allCallers' = acc.allCallers
                       /\ impactedFiles' = acc.impactedFiles
                       /\ queue' = acc.queue
    /\ UNCHANGED <<fileAnalysis, graph, pc, query, result>>
    /\ UNCHANGED <<chunkVars, tokenVars, extractVars, toolVars, reviewVars>>

\* the queue is empty: getImpactAnalysis returns
ImpactReturn ==
    /\ pc = "impact"
    /\ queue = <<>>
    /\ result' = [NoResult EXCEPT !.returned = TRUE,
                                  !.directCallers = directCallers,
                                  !.allCallers = allCallers,
                                  !.impactedFiles = impactedFiles,
                                  !.depth = maxDepthReached]
    /\ pc' = "done"
    /\ UNCHANGED <<fileAnalysis, graph, query, queue, visited, directCallers,
                   allCallers, impactedFiles, maxDepthReached, expanded>>
    /\ UNCHANGED <<chunkVars, tokenVars, extractVars, toolVars, reviewVars>>

\* the caller has read the result and is free to ask the next query
NextQuery ==
    /\ pc = "done"
    /\ pc' = "ready"
    /\ query' = NoQuery
    /\ queue' = <<>>
    /\ visited' = {}
    /\ directCallers' = <<>>
    /\ allCallers' = <<>>
    /\ impactedFiles' = {}
    /\ maxDepthReached' = 0
    /\ result' = NoResult
    /\ expanded' = <<>>
    /\ UNCHANGED <<fileAnalysis, graph>>
    /\ UNCHANGED <<chunkVars, tokenVars, extractVars, toolVars, reviewVars>>

NextGraph ==
    \/ BuildCallGraph
    \/ FindEdges
    \/ DependenciesCall
    \/ DependenciesStep
    \/ DependenciesReturn
    \/ ImpactCall
    \/ ImpactStep
    \/ ImpactReturn
    \/ NextQuery

SpecGraph == InitGraph /\ [][NextGraph]_vars

\* Every statement of the two loops runs to completion, so a started
\* traversal keeps taking iterations while it has one to take.
FairSpecGraph ==
    /\ SpecGraph
    /\ WF_vars(DependenciesStep)
    /\ WF_vars(DependenciesReturn)
    /\ WF_vars(ImpactStep)
    /\ WF_vars(ImpactReturn)

(***************************************************************************)
(* Properties of the call graph and its queries.                           *)
(***************************************************************************)
EndsWith(str, suffix) ==
    Len(str) >= Len(suffix) /\ SubSeq(str, Len(str) - Len(suffix) + 1, Len(str)) = suffix

\* the keys one callee edge away from a set of keys
CalleesOf(keys) ==
    UNION { {graph[k].callees[i].to : i \in 1..Len(graph[k].callees)} :
            k \in keys \cap DOMAIN graph }

\* the keys reachable from start along 1 to n callee edges
RECURSIVE ReachWithin(_, _)
ReachWithin(start, n) ==
    IF n = 0 THEN {}
    ELSE LET r == ReachWithin(start, n - 1) IN r \cup CalleesOf({start} \cup r)

DepsReturned == pc = "done" /\ query.kind = "deps"
ImpactReturned == pc = "done" /\ query.kind = "impact"

\* C5: findDependencies returns exactly the nodes other than the start that
\* are reachable from it along 1 to maxDepth callee edges; nodes at depth
\* maxDepth are in the result (maxDepth = 1 gives the direct callees).
C5_DependenciesWithinMaxDepth ==
    DepsReturned =>
        result.keys = ReachWithin(QueryKey, query.maxDepth) \ {QueryKey}

\* what the loop computes: a key popped at depth maxDepth is skipped before
\* visited.add, so the result stops one edge short of maxDepth
DependenciesStopOneShort ==
    DepsReturned =>
        result.keys = (IF query.maxDepth = 0 THEN {}
                       ELSE ReachWithin(QueryKey, query.maxDepth - 1)) \ {QueryKey}

NoKeyExpandedTwice ==
    \A i, j \in 1..Len(expanded) : i # j => expanded[i] # expanded[j]

\* start and other form a two-node cycle: each calls the other and nothing else
TwoNodeCycle(start, other) ==
    /\ start # other
    /\ MapHas(graph, start) /\ MapHas(graph, other)
    /\ CalleesOf({start}) = {other}
    /\ CalleesOf({other}) = {start}

\* C6: on every graph, cycles and self-calls included, and for every maxDepth,
\* a started findDependencies or getImpactAnalysis returns, no key passes the
\* loop guard twice, and on a two-node cycle A -> B -> A findDependencies from
\* A with maxDepth 10 returns {B}.
C6_TraversalsTerminate ==
    /\ [](NoKeyExpandedTwice)
    /\ [](\A other \in DOMAIN graph :
             (DepsReturned /\ query.maxDepth = 10 /\ TwoNodeCycle(QueryKey, other))
                 => result.keys = {other})
    /\ ((pc \in {"deps", "impact"}) ~> (pc = "done"))

\* findDependencies from p/a:f with maxDepth 10 has returned {p/a:g} on the
\* cycle p/a:f -> p/a:g -> p/a:f
C6_Witness ==
    /\ DepsReturned
    /\ query.maxDepth = 10
    /\ TwoNodeCycle(QueryKey, Key(File_a, <<"g">>))
    /\ result.keys = {Key(File_a, <<"g">>)}
    /\ Len(expanded) = 2

\* C7: for a start node of the graph and maxDepth >= 1, directCallers is the
\* list of the from keys of the caller edges of the start node, and nothing
\* from deeper levels is added to it.
C7_DirectCallers ==
    (ImpactReturned /\ MapHas(graph, QueryKey) /\ query.maxDepth >= 1) =>
        result.directCallers =
            [i \in 1..Len(graph[QueryKey].callers) |-> graph[QueryKey].callers[i].from]

\* getImpactAnalysis with maxDepth >= 2 has returned for a node with a single
\* caller edge, and callers of deeper levels were found as well
C7_Witness ==
    /\ ImpactReturned
    /\ MapHas(graph, QueryKey)
    /\ query.maxDepth >= 2
    /\ Len(graph[QueryKey].callers) = 1
    /\ result.directCallers = << graph[QueryKey].callers[1].from >>
    /\ Len(result.allCallers) > Len(result.directCallers)

\* the facts declare a function of that name in that file
Declares(fa, file, name) ==
    /\ HasAnalysis(fa, file)
    /\ \E i \in 1..Len(GetAnalysis(fa, file).functions) :
           GetAnalysis(fa, file).functions[i].name = name

\* the graph buildCallGraph returned for the facts of this request; the build
\* is a function of the facts, so this is the graph before any query
BuiltGraph == buildCallGraph(fileAnalysis)

\* C8: a query for a (file, name) that is no node of the graph returns empty
\* results (no edges, no keys, no callers, no files, depth 0), and leaves the
\* graph as buildCallGraph returned it, without that key.
C8_AbsentKeyQueries ==
    (pc \in {"deps", "impact", "done"} /\ ~Declares(fileAnalysis, query.file, query.name)) =>
        /\ ~MapHas(graph, QueryKey)
        /\ graph = BuiltGraph
        /\ pc = "done" => result = [NoResult EXCEPT !.returned = TRUE]

\* findDependencies for p/b:f, which no file declares, has returned
C8_Witness ==
    /\ DepsReturned
    /\ query.file = File_b /\ query.name = <<"f">> /\ query.maxDepth = MaxDepthArg
    /\ ~MapHas(graph, QueryKey)
    /\ result.returned /\ result.keys = {}

AllEdges ==
    UNION { {graph[k].callers[i] : i \in 1..Len(graph[k].callers)}
            \cup {graph[k].callees[i] : i \in 1..Len(graph[k].callees)} :
            k \in DOMAIN graph }

DeclaredKeys ==
    UNION { {Key(fileAnalysis[e].file, fileAnalysis[e].functions[i].name) :
                i \in 1..Len(fileAnalysis[e].functions)} :
            e \in 1..Len(fileAnalysis) }

\* the files the internal dependencies of an entry resolve to, in order
ResolvedImports(entry) ==
    LET deps == entry.dependencies
        internal == SelectSeq(deps, LAMBDA d : ~d.isExternal)
    IN  [i \in 1..Len(internal) |-> resolveImportPath(internal[i].source, entry.file)]

\* a call name that neither the caller's file nor an internal import declares
Unresolved(entry, name) ==
    /\ ~Declares(fileAnalysis, entry.file, name)
    /\ \A i \in 1..Len(ResolvedImports(entry)) :
           ~Declares(fileAnalysis, ResolvedImports(entry)[i], name)

\* the callee edges of the node of a function fact that were made for the
\* call name of that fact (the edge carries the line of the fact)
EdgesForCall(entry, func, name) ==
    LET k == Key(entry.file, func.name)
    IN  { i \in 1..Len(graph[k].callees) :
            /\ graph[k].callees[i].line = func.line
            /\ EndsWith(graph[k].callees[i].to, <<":">> \o name) }

\* C9: when buildCallGraph has returned, every edge of every caller or callee list joins
\* two nodes of the graph, the nodes are the declared (file, name) pairs, and
\* a call name declared neither in the caller's file nor in an internal
\* dependency of it has no edge.
C9_EdgesJoinNodes ==
    pc = "ready" =>
        /\ \A e \in AllEdges : MapHas(graph, e.from) /\ MapHas(graph, e.to)
        /\ DOMAIN graph = DeclaredKeys
        /\ \A e \in 1..Len(fileAnalysis) :
             \A i \in 1..Len(fileAnalysis[e].functions) :
               LET func == fileAnalysis[e].functions[i]
               IN  \A c \in 1..Len(func.calls.names) :
                     Unresolved(fileAnalysis[e], func.calls.names[c])
                         => EdgesForCall(fileAnalysis[e], func, func.calls.names[c]) = {}

\* the graph is built, p/a:f calls z, which nothing declares, and main of the
\* root-level file calls f, which its import does not resolve to
C9_Witness ==
    /\ pc = "ready"
    /\ \E c \in 1..Len(fileAnalysis[2].functions[1].calls.names) :
           fileAnalysis[2].functions[1].calls.names[c] = <<"z">>
    /\ Unresolved(fileAnalysis[1], <<"f">>)
    /\ graph[Key(File_m, <<"m", "a", "i", "n">>)].callees = <<>>
    /\ Len(graph[Key(File_a, <<"f">>)].callees) = 2

\* the key a call name of a function of that entry is meant to resolve to
ExpectedTarget(entry, name) ==
    IF Declares(fileAnalysis, entry.file, name) THEN Key(entry.file, name)
    ELSE LET r == ResolvedImports(entry)
             first == CHOOSE i \in 1..Len(r) :
                         /\ Declares(fileAnalysis, r[i], name)
                         /\ \A j \in 1..(i - 1) : ~Declares(fileAnalysis, r[j], name)
         IN  Key(r[first], name)

\* C10: when buildCallGraph has returned, a call name declared in the caller's
\* file resolves to the function of that file; otherwise to the function of
\* the first internal dependency, in declaration order, whose resolved file
\* declares it; and a call name of a function fact has at most one edge.
C10_ResolutionOrder ==
    pc = "ready" =>
        \A e \in 1..Len(fileAnalysis) :
          \A i \in 1..Len(fileAnalysis[e].functions) :
            LET entry == fileAnalysis[e]
                func == entry.functions[i]
                k == Key(entry.file, func.name)
            IN  \A c \in 1..Len(func.calls.names) :
                  LET name == func.calls.names[c]
                      made == EdgesForCall(entry, func, name)
                  IN  /\ Cardinality(made) <= 1
                      /\ ~Unresolved(entry, name) =>
                            /\ Cardinality(made) = 1
                            /\ \A x \in made :
                                   graph[k].callees[x].to = ExpectedTarget(entry, name)

\* p/a:f calls g, declared in p/a and in the import p/b, and p/a:g calls h,
\* declared in both imports of p/a, with p/c imported first
C10_Witness ==
    /\ pc = "ready"
    /\ fileAnalysis[2].functions[1].calls.names = << <<"g">> >>
    /\ graph[Key(File_a, <<"f">>)].callees[1].to = Key(File_a, <<"g">>)
    /\ MapHas(graph, Key(File_b, <<"g">>))
    /\ fileAnalysis[2].functions[2].calls.names = << <<"k">>, <<"h">> >>
    /\ fileAnalysis[2].dependencies[1].source = <<".", ".", "/", "p", "/", "c">>
    /\ graph[Key(File_a, <<"g">>)].callees[2].to = Key(File_c, <<"h">>)

\* the (file, name) pairs of the function facts
DeclaredPairs ==
    UNION { {<<fileAnalysis[e].file, fileAnalysis[e].functions[i].name>> :
                i \in 1..Len(fileAnalysis[e].functions)} :
            e \in 1..Len(fileAnalysis) }

\* the line of the last function fact of that name in the entry of that file
LastDeclarationLine(file, name) ==
    LET funcs == GetAnalysis(fileAnalysis, file).functions
        last == CHOOSE i \in 1..Len(funcs) :
                    /\ funcs[i].name = name
                    /\ \A j \in (i + 1)..Len(funcs) : funcs[j].name # name
    IN  funcs[last].line

\* C19: when buildCallGraph has returned, the graph has exactly one node for
\* each distinct (file, function name) pair of the facts and no other node,
\* and the node of a name that one file declares more than once is the one of
\* the last declaration: it carries that declaration's line.
C19_OneNodePerPair ==
    pc = "ready" =>
        /\ DOMAIN graph = {Key(pr[1], pr[2]) : pr \in DeclaredPairs}
        /\ Cardinality(DOMAIN graph) = Cardinality(DeclaredPairs)
        /\ \A pr \in DeclaredPairs :
               LET node == graph[Key(pr[1], pr[2])]
               IN  /\ node.file = pr[1]
                   /\ node.name = pr[2]
                   /\ node.line = LastDeclarationLine(pr[1], pr[2])

\* the graph is built from facts in which p/c declares h at line 3 and again at
\* line 9; the node p/c:h carries line 9
C19_Witness ==
    /\ pc = "ready"
    /\ fileAnalysis[4].file = File_c
    /\ fileAnalysis[4].functions[1].name = <<"h">> /\ fileAnalysis[4].functions[1].line = 3
    /\ fileAnalysis[4].functions[3].name = <<"h">> /\ fileAnalysis[4].functions[3].line = 9
    /\ graph[Key(File_c, <<"h">>)].line = 9
    /\ Cardinality(DOMAIN graph) = Cardinality(DeclaredPairs)

\* the number of times an edge is in a list
Occurrences(edges, e) == Cardinality({i \in 1..Len(edges) : edges[i] = e})

\* C20: when buildCallGraph has returned, every edge is in the callee list of
\* its from node exactly as many times as it is in the caller list of its to
\* node, every edge of a callee list has the node of the list as its from key,
\* and every edge of a caller list has the node of the list as its to key.
C20_BidirectionalEdges ==
    pc = "ready" =>
        /\ \A e \in AllEdges :
               /\ MapHas(graph, e.from) /\ MapHas(graph, e.to)
               /\ Occurrences(graph[e.from].callees, e) = Occurrences(graph[e.to].callers, e)
        /\ \A k \in DOMAIN graph :
               /\ \A i \in 1..Len(graph[k].callees) : graph[k].callees[i].from = k
               /\ \A i \in 1..Len(graph[k].callers) : graph[k].callers[i].to = k

\* the graph is built, p/c:k calls itself and is called by p/c:h from both
\* declarations of h, and p/c:k calls p/b:g in another file
C20_Witness ==
    /\ pc = "ready"
    /\ LET k == Key(File_c, <<"k">>)
       IN  /\ \E i \in 1..Len(graph[k].callees) : graph[k].callees[i].to = k
           /\ \E i \in 1..Len(graph[k].callers) : graph[k].callers[i].from = k
           /\ \E i \in 1..Len(graph[k].callers) :
                  graph[k].callers[i].from = Key(File_c, <<"h">>)
           /\ Len(graph[k].callers) >= 2

\* '.'/'..' segment resolution of a relative specifier against the directory
\* of a file: the directory of a file without a slash has no segment
StandardResolve(importPath, currentFile) ==
    LET fileParts == Split(currentFile, "/")
        dirSegments == SubSeq(fileParts, 1, Len(fileParts) - 1)
    IN  Join(resolveParts(dirSegments, Split(importPath, "/")), "/")

\* C21: the candidate file key of every relative specifier of every file, a
\* file without a directory component included, is the '.'/'..' resolution of
\* the specifier against the directory of the file, so the call of f in the
\* root-level file m, which imports './p/a', gives the edge m:main -> p/a:f.
C21_ImportPathResolution ==
    pc = "ready" =>
        /\ \A e \in 1..Len(fileAnalysis) :
               \A d \in 1..Len(fileAnalysis[e].dependencies) :
                   LET dep == fileAnalysis[e].dependencies[d]
                   IN  StartsWith(dep.source, <<".">>) =>
                           resolveImportPath(dep.source, fileAnalysis[e].file)
                               = StandardResolve(dep.source, fileAnalysis[e].file)
        /\ \E i \in 1..Len(graph[Key(File_m, <<"m", "a", "i", "n">>)].callees) :
               graph[Key(File_m, <<"m", "a", "i", "n">>)].callees[i].to
                   = Key(File_a, <<"f">>)

\* what the code does: in a file with a directory component the candidate is
\* the standard resolution; in a file without one it is the standard
\* resolution with a slash in front, which is the key of no file of the facts
ResolutionAddsLeadingSlash ==
    pc = "ready" =>
        \A e \in 1..Len(fileAnalysis) :
            \A d \in 1..Len(fileAnalysis[e].dependencies) :
                LET dep == fileAnalysis[e].dependencies[d]
                    file == fileAnalysis[e].file
                IN  StartsWith(dep.source, <<".">>) =>
                        resolveImportPath(dep.source, file)
                            = IF Includes(file, <<"/">>)
                              THEN StandardResolve(dep.source, file)
                              ELSE <<"/">> \o StandardResolve(dep.source, file)

\* the keys one caller edge away from a set of keys
CallersOf(keys) ==
    UNION { {graph[k].callers[i].from : i \in 1..Len(graph[k].callers)} :
            k \in keys \cap DOMAIN graph }

\* the keys from which start is reachable along 1 to n call edges
RECURSIVE CallersWithin(_, _)
CallersWithin(start, n) ==
    IF n = 0 THEN {}
    ELSE LET r == CallersWithin(start, n - 1) IN r \cup CallersOf({start} \cup r)

\* the number of call edges of the shortest chain from key to start
CallerDistance(start, key) ==
    CHOOSE n \in 1..(Cardinality(DOMAIN graph) + 1) :
        /\ key \in CallersWithin(start, n)
        /\ key \notin CallersWithin(start, n - 1)

ReportedCallers == {result.allCallers[i] : i \in 1..Len(result.allCallers)}

\* C24: allCallers holds, without duplicates, exactly the nodes other than the
\* start node from which the start is reachable through a chain of 1 to
\* maxDepth call edges, and impactedFiles is exactly the set of the files of
\* the functions in allCallers.
C24_AllCallersAccumulated ==
    ImpactReturned =>
        /\ ReportedCallers = CallersWithin(QueryKey, query.maxDepth) \ {QueryKey}
        /\ \A i, j \in 1..Len(result.allCallers) :
               i # j => result.allCallers[i] # result.allCallers[j]
        /\ result.impactedFiles = {graph[k].file : k \in ReportedCallers}

\* getImpactAnalysis with maxDepth >= 2 has returned for a start node that is
\* on a call cycle; callers of a deeper level and of a second file are
\* reported
C24_Witness ==
    /\ ImpactReturned
    /\ query.maxDepth >= 2
    /\ QueryKey \in CallersWithin(QueryKey, query.maxDepth)
    /\ ReportedCallers \ CallersOf({QueryKey}) # {}
    /\ Cardinality(ReportedCallers) >= 3
    /\ Cardinality(result.impactedFiles) >= 2

\* the largest distance from the start of a reported caller, 0 without one
FarthestReported ==
    IF ReportedCallers = {} THEN 0
    ELSE CHOOSE d \in {CallerDistance(QueryKey, k) : k \in ReportedCallers} :
             \A k \in ReportedCallers : CallerDistance(QueryKey, k) <= d

\* C25: the depth of the result is the largest caller-edge distance from the
\* start node of any function in allCallers, 0 when allCallers is empty, and
\* it never exceeds maxDepth.
C25_DepthReached ==
    ImpactReturned =>
        /\ result.depth = FarthestReported
        /\ result.depth <= query.maxDepth

\* what the loop computes: maxDepthReached is raised only for a key that
\* passes the guard depth < maxDepth, so callers found at distance maxDepth
\* are reported and not counted
DepthStopsOneShort ==
    ImpactReturned =>
        result.depth = IF query.maxDepth = 0 THEN 0
                       ELSE IF FarthestReported < query.maxDepth THEN FarthestReported
                       ELSE query.maxDepth - 1

\* C28: every key of directCallers is also in allCallers, on every graph.
C28_DirectCallersInAllCallers ==
    ImpactReturned =>
        \A i \in 1..Len(result.directCallers) :
            result.directCallers[i] \in ReportedCallers

\* what the loop computes: a direct caller is in allCallers unless it is the
\* start node itself
DirectCallersInAllCallersButStart ==
    ImpactReturned =>
        \A i \in 1..Len(result.directCallers) :
            result.directCallers[i] \in ReportedCallers \cup {QueryKey}

(***************************************************************************)
(* analysis/ast-parser.ts                                                  *)
(*                                                                         *)
(* A node of the tree the parser returns is [type, name, line, kids]:      *)
(* type is node.type; name is the one string the extractor reads from the  *)
(* node (id.name of a function or declarator, key.name of a method, the    *)
(* operator of a logical expression, the flattened callee name of a call,  *)
(* source.value of an import, the value of a literal), '' when the node    *)
(* has none; line is loc.start.line; kids are the child nodes in the order *)
(* `for (const key in node)` reaches them.  Identifier children match no   *)
(* test of the extractor and are left out.                                 *)
(***************************************************************************)
Node(type, name, line, kids) ==
    [type |-> type, name |-> name, line |-> line, kids |-> kids]

\* parent = null at the root
NoNode == Node("null", <<>>, 0, <<>>)

\* the sum of a sequence of numbers, the concatenation of a sequence of
\* arrays: what a visit accumulates over the children of a node
RECURSIVE Sum(_)
Sum(seq) == IF seq = <<>> THEN 0 ELSE Head(seq) + Sum(Tail(seq))
RECURSIVE Concat(_)
Concat(seqs) == IF seqs = <<>> THEN <<>> ELSE Head(seqs) \o Concat(Tail(seqs))

\* the test of visit in calculateComplexity
isDecisionPoint(n) ==
    /\ n.type \in {"IfStatement", "ConditionalExpression", "SwitchCase",
                   "ForStatement", "ForInStatement", "ForOfStatement",
                   "WhileStatement", "DoWhileStatement", "CatchClause",
                   "LogicalExpression"}
    /\ (n.type # "LogicalExpression" \/ n.name = <<"&", "&">> \/ n.name = <<"|", "|">>)

\* visit of calculateComplexity: the number of complexity++ it executes on a
\* node and everything below it
RECURSIVE decisionPoints(_)
decisionPoints(n) ==
    (IF isDecisionPoint(n) THEN 1 ELSE 0)
        + Sum([i \in 1..Len(n.kids) |-> decisionPoints(n.kids[i])])

\* Variant of calculateComplexity: the counter starts at 0.
calculateComplexityFromZero(node) == decisionPoints(node)

\* calculateComplexity
calculateComplexity(node) == 1 + decisionPoints(node)

\* visit of extractFunctionCalls: the callee names pushed, in order
RECURSIVE callNames(_)
callNames(n) ==
    (IF n.type = "CallExpression" /\ n.name # <<>> THEN <<n.name>> ELSE <<>>)
        \o Concat([i \in 1..Len(n.kids) |-> callNames(n.kids[i])])

\* [...new Set(calls)]
RECURSIVE Distinct(_)
Distinct(seq) ==
    IF seq = <<>> THEN <<>>
    ELSE LET front == Distinct(SubSeq(seq, 1, Len(seq) - 1))
         IN  SetAdd(front, seq[Len(seq)])

\* extractFunctionCalls
extractFunctionCalls(node) == Distinct(callNames(node))

\* isExported
isExported(node, parent) ==
    parent.type \in {"ExportNamedDeclaration", "ExportDefaultDeclaration"}

\* a FunctionInfo: name, line, isExported, complexity and calls (column,
\* params, returnType and isAsync are copied from the node and read by no
\* operation of the model)
FunctionInfo(name, fnNode, line, exported) ==
    [name |-> name, line |-> line, isExported |-> exported,
     complexity |-> calculateComplexity(fnNode),
     calls |-> extractFunctionCalls(fnNode)]

\* visit of extractFunctions: the facts pushed for a node and everything
\* below it, in order
RECURSIVE visitFunctions(_, _)
visitFunctions(node, parent) ==
    (IF node.type = "FunctionDeclaration" /\ node.name # <<>>
     THEN << FunctionInfo(node.name, node, node.line, isExported(node, parent)) >>
     ELSE <<>>)
    \o (IF node.type \in {"ArrowFunctionExpression", "FunctionExpression"}
           /\ parent.type = "VariableDeclarator" /\ parent.name # <<>>
        THEN << FunctionInfo(parent.name, node, node.line, FALSE) >>
        ELSE <<>>)
    \o (IF node.type = "MethodDefinition" /\ node.name # <<>>
        THEN << FunctionInfo(node.name, node.kids[1], node.line, FALSE) >>
        ELSE <<>>)
    \o Concat([i \in 1..Len(node.kids) |-> visitFunctions(node.kids[i], node)])

\* extractFunctions
extractFunctions(ast) == visitFunctions(ast, NoNode)

\* a DependencyInfo (specifiers are read by no operation of the model)
DependencyInfo(type, source, line, isExternal) ==
    [type |-> type, source |-> source, line |-> line, isExternal |-> isExternal]

\* visit of extractDependencies: the facts pushed for a node and everything
\* below it, in order
RECURSIVE visitDependencies(_)
visitDependencies(node) ==
    (IF node.type = "ImportDeclaration"
     THEN << DependencyInfo("import", node.name, node.line,
                            ~StartsWith(node.name, <<".">>)) >>
     ELSE <<>>)
    \o (IF node.type = "CallExpression"
           /\ node.name = <<"r", "e", "q", "u", "i", "r", "e">>
           /\ Len(node.kids) > 0 /\ node.kids[1].type = "StringLiteral"
        THEN << DependencyInfo("require", node.kids[1].name, node.line,
                               ~StartsWith(node.kids[1].name, <<".">>)) >>
        ELSE <<>>)
    \o (IF node.type = "ImportExpression"
        THEN << DependencyInfo("dynamic",
                               IF node.name # <<>> THEN node.name
                               ELSE <<"<", "d", "y", "n", "a", "m", "i", "c", ">">>,
                               node.line, TRUE) >>
        ELSE <<>>)
    \o Concat([i \in 1..Len(node.kids) |-> visitDependencies(node.kids[i])])

\* extractDependencies
extractDependencies(ast) == visitDependencies(ast)

\* String.prototype.trim, for the white space of the model: the substring
\* from the first to the last character that is not white space
WhiteSpace == {" ", "\t", "\r", "\n"}
trim(str) ==
    LET black == {i \in 1..Len(str) : str[i] \notin WhiteSpace}
    IN  IF black = {} THEN <<>>
        ELSE SubSeq(str, CHOOSE i \in black : \A j \in black : i <= j,
                         CHOOSE i \in black : \A j \in black : i >= j)

\* String.prototype.toLowerCase, for the capitals of the model
toLowerCase(str) ==
    [i \in 1..Len(str) |->
        IF str[i] = "A" THEN "a" ELSE IF str[i] = "S" THEN "s"
        ELSE IF str[i] = "T" THEN "t" ELSE str[i]]

\* Math.round of the quotient of two non-negative integers
Round(n, d) == (2 * n + d) \div (2 * d)

\* countClasses: the matches of /\bclass\s+\w+/g
countClasses(str) ==
    LET wordChars == {Alphabet[k] : k \in 4..Len(Alphabet)} \cup {"A", "S", "T", "_"}
    IN  Cardinality({ i \in 1..(Len(str) - 6) :
            /\ SubSeq(str, i, i + 4) = <<"c", "l", "a", "s", "s">>
            /\ (i = 1 \/ str[i - 1] \notin wordChars)
            /\ str[i + 5] \in WhiteSpace
            /\ \E j \in (i + 6)..Len(str) :
                   /\ str[j] \in wordChars
                   /\ \A k \in (i + 5)..(j - 1) : str[k] \in WhiteSpace })

\* calculateMetrics.  complexity is kept in tenths and commentRatio in
\* hundredths.  171 - 5.2 ln(lines) - 0.23 avgComplexity is above 100 for
\* every content of fewer than 1000 lines whose functions have an average
\* complexity below 100, so the clamp to [0, 100] gives 100.
calculateMetrics(str, functions) ==
    LET lines == Split(str, "\n")
        isComment(l) == StartsWith(trim(l), <<"/", "/">>) \/ StartsWith(trim(l), <<"/", "*">>)
        codeLine(l) == trim(l) # <<>> /\ ~isComment(l)
        commentLine(l) == isComment(l) \/ StartsWith(trim(l), <<"*">>)
        sum == Sum([i \in 1..Len(functions) |-> functions[i].complexity])
    IN  [linesOfCode |-> Len(SelectSeq(lines, codeLine)),
         complexity |-> IF Len(functions) > 0 THEN Round(10 * sum, Len(functions)) ELSE 0,
         maintainabilityIndex |-> 100,
         commentRatio |-> Round(100 * Len(SelectSeq(lines, commentLine)), Len(lines)),
         functionCount |-> Len(functions),
         classCount |-> countClasses(str)]

\* getBasicMetrics
getBasicMetrics(str) ==
    LET nonBlank(l) == trim(l) # <<>>
    IN  [linesOfCode |-> Len(SelectSeq(Split(str, "\n"), nonBlank)),
         complexity |-> 0,
         maintainabilityIndex |-> 0,
         commentRatio |-> 0,
         functionCount |-> 0,
         classCount |-> 0]

\* detectLanguage: langMap[ext || ''] || 'unknown'
langMap ==
    << [ext |-> <<"t", "s">>, language |-> "typescript"],
       [ext |-> <<"t", "s", "x">>, language |-> "tsx"],
       [ext |-> <<"j", "s">>, language |-> "javascript"],
       [ext |-> <<"j", "s", "x">>, language |-> "jsx"],
       [ext |-> <<"m", "j", "s">>, language |-> "javascript"],
       [ext |-> <<"c", "j", "s">>, language |-> "javascript"],
       [ext |-> <<"p", "y">>, language |-> "python"],
       [ext |-> <<"r", "b">>, language |-> "ruby"],
       [ext |-> <<"g", "o">>, language |-> "go"],
       [ext |-> <<"r", "s">>, language |-> "rust"],
       [ext |-> <<"j", "a", "v", "a">>, language |-> "java"],
       [ext |-> <<"c", "p", "p">>, language |-> "cpp"],
       [ext |-> <<"c">>, language |-> "c"],
       [ext |-> <<"c", "s">>, language |-> "csharp"],
       [ext |-> <<"p", "h", "p">>, language |-> "php"] >>

detectLanguage(name) ==
    LET parts == Split(name, ".")
        ext == toLowerCase(parts[Len(parts)])
    IN  IF \E k \in 1..Len(langMap) : langMap[k].ext = ext
        THEN langMap[CHOOSE k \in 1..Len(langMap) : langMap[k].ext = ext].language
        ELSE "unknown"

\* parseTypeScript and parseJavaScript: [threw, value].  outcome is what the
\* parser library does with the content: it throws, or it returns a tree.
\* Whatever is thrown inside the try block leaves as a new Error.
parseTypeScript(str, outcome) ==
    IF outcome.throws
    THEN [threw |-> TRUE, value |-> NoParse]
    ELSE LET functions == extractFunctions(outcome.ast)
         IN  [threw |-> FALSE,
              value |-> [returned |-> TRUE, raised |-> FALSE, ast |-> "tree",
                         functions |-> functions,
                         dependencies |-> extractDependencies(outcome.ast),
                         metrics |-> calculateMetrics(str, functions)]]

parseJavaScript(str, outcome) ==
    IF outcome.throws
    THEN [threw |-> TRUE, value |-> NoParse]
    ELSE LET functions == extractFunctions(outcome.ast)
         IN  [threw |-> FALSE,
              value |-> [returned |-> TRUE, raised |-> FALSE, ast |-> "tree",
                         functions |-> functions,
                         dependencies |-> extractDependencies(outcome.ast),
                         metrics |-> calculateMetrics(str, functions)]]

\* the value of the default case and of the catch block of parseFile
basicResult(str) ==
    [returned |-> TRUE, raised |-> FALSE, ast |-> "null", functions |-> <<>>,
     dependencies |-> <<>>, metrics |-> getBasicMetrics(str)]

\* Variant of parseFile: no catch block, the error of the parser leaves
\* parseFile.
parseFileNoCatch(str, name, outcome) ==
    LET language == detectLanguage(name)
        r == IF language \in {"typescript", "tsx"}
             THEN parseTypeScript(str, outcome)
             ELSE parseJavaScript(str, outcome)
    IN  IF language \in {"typescript", "tsx", "javascript", "jsx"}
        THEN IF r.threw THEN [NoParse EXCEPT !.raised = TRUE] ELSE r.value
        ELSE basicResult(str)

\* parseFile
parseFile(str, name, outcome) ==
    LET language == detectLanguage(name)
        r == IF language \in {"typescript", "tsx"}
             THEN parseTypeScript(str, outcome)
             ELSE parseJavaScript(str, outcome)
    IN  IF language \in {"typescript", "tsx", "javascript", "jsx"}
        THEN IF r.threw THEN basicResult(str) ELSE r.value
        ELSE basicResult(str)

(***************************************************************************)
(* One call of parseFile: a file name, a content, and what the parser      *)
(* makes of the content.                                                   *)
(***************************************************************************)
\* The trees the parser returns: a dependency (import declarations, require
\* calls whose argument is a string literal of either parser, 'StringLiteral'
\* or 'Literal', dynamic imports of a literal and of an expression) followed
\* by a function (a declaration, exported, default-exported without a name,
\* a variable-bound arrow, a class method).  The body of the function holds
\* decision points of several kinds, a logical expression that is none
\* ('??'), calls, a loop around a conditional, and a function bound inside
\* the body with a decision point and a call of its own.
Programs ==
    LET Block(stmts) == Node("BlockStatement", <<>>, 0, stmts)
        Call(name, line) == Node("CallExpression", name, line, <<>>)
        \* const name = () => { stmts }
        ArrowBinding(name, line, stmts) ==
            Node("VariableDeclaration", <<>>, line,
                 << Node("VariableDeclarator", name, line,
                         << Node("ArrowFunctionExpression", <<>>, line,
                                 << Block(stmts) >>) >>) >>)
        \* function name() { stmts }
        Declaration(name, line, stmts) ==
            Node("FunctionDeclaration", name, line, << Block(stmts) >>)
        \* class A { name() { stmts } }
        ClassWithMethod(name, line, stmts) ==
            Node("ClassDeclaration", <<"A">>, line,
                 << Node("ClassBody", <<>>, line,
                         << Node("MethodDefinition", name, line + 1,
                                 << Node("FunctionExpression", <<>>, line + 1,
                                         << Block(stmts) >>) >>) >>) >>)
        Require(type, source) ==
            Node("CallExpression", <<"r", "e", "q", "u", "i", "r", "e">>, 1,
                 << Node(type, source, 1, <<>>) >>)
        Statements ==
            { Node("IfStatement", <<>>, 3, <<>>),
              Node("ExpressionStatement", <<>>, 3,
                   << Node("LogicalExpression", <<"&", "&">>, 3,
                           << Node("LogicalExpression", <<"?", "?">>, 3, <<>>) >>) >>),
              Node("ExpressionStatement", <<>>, 3, << Call(<<"f">>, 3) >>),
              Node("TryStatement", <<>>, 3,
                   << Block(<< Call(<<"f">>, 4) >>),
                      Node("CatchClause", <<>>, 5, << Block(<<>>) >>) >>),
              Node("ForOfStatement", <<>>, 3,
                   << Block(<< Node("ConditionalExpression", <<>>, 4, <<>>) >>) >>),
              ArrowBinding(<<"g">>, 6,
                           << Node("IfStatement", <<>>, 7, << Call(<<"h">>, 7) >>) >>) }
        Bodies ==
            {<<>>} \cup { <<st>> : st \in Statements }
                   \cup { <<st, Node("WhileStatement", <<>>, 9, <<>>)>> : st \in Statements }
        FunctionItems ==
            UNION { { Declaration(<<"f">>, 2, b),
                      Node("ExportNamedDeclaration", <<>>, 2, << Declaration(<<"f">>, 2, b) >>),
                      Node("ExportDefaultDeclaration", <<>>, 2, << Declaration(<<>>, 2, b) >>),
                      ArrowBinding(<<"k">>, 2, b),
                      ClassWithMethod(<<"m">>, 1, b) } : b \in Bodies }
        DependencyItems ==
            { Node("ImportDeclaration", <<".", "/", "b">>, 1, <<>>),
              Node("ImportDeclaration", <<"l", "i", "b">>, 1, <<>>),
              Require("StringLiteral", <<".", "/", "c">>),
              Require("StringLiteral", <<"f", "s">>),
              Require("Literal", <<".", "/", "c">>),
              Node("ImportExpression", <<".", "/", "d">>, 1, <<>>),
              Node("ImportExpression", <<"l", "i", "b">>, 1, <<>>),
              Node("ImportExpression", <<>>, 1, <<>>) }
    IN  { Node("Program", <<>>, 1, <<d, f>>) : d \in DependencyItems, f \in FunctionItems }

ParserOutcomes ==
    { [throws |-> TRUE, ast |-> NoNode] }
        \cup { [throws |-> FALSE, ast |-> p] : p \in Programs }

FileNames ==
    { <<"a", ".", "t", "s">>, <<"A", ".", "T", "S">>, <<"b", ".", "j", "s", "x">>,
      <<"c", ".", "d", ".", "m", "j", "s">>, <<"e", ".", "p", "y">>, <<"f">> }

Contents ==
    { <<"x">>,
      <<"x", "\n", "\n", " ", "/", "/", "c">>,
      <<" ", "\n", "\t">>,
      <<"c", "l", "a", "s", "s", " ", "A", " ", "{", "\n", " ", "*", " ", "d", "\n", "}">> }

InitExtract ==
    /\ argFilename \in FileNames
    /\ argContent \in Contents
    /\ parser \in ParserOutcomes
    /\ parsed = NoParse
    /\ ChunksIdle
    /\ GraphIdle
    /\ TokensIdle
    /\ ToolsIdle
    /\ ReviewIdle

\* one call parseFile(content, filename)
ParseFile ==
    /\ ~parsed.returned /\ ~parsed.raised
    /\ parsed' = parseFile(argContent, argFilename, parser)
    /\ UNCHANGED <<argFilename, argContent, parser>>
    /\ UNCHANGED <<chunkVars, graphVars, tokenVars, toolVars, reviewVars>>

NextExtract == ParseFile

SpecExtract == InitExtract /\ [][NextExtract]_vars

(***************************************************************************)
(* Properties of the source model extractor.                               *)
(***************************************************************************)
functionTypes == {"FunctionDeclaration", "FunctionExpression", "ArrowFunctionExpression"}

\* the function nodes the facts are made for, in the order of the facts
RECURSIVE FunctionNodes(_, _)
FunctionNodes(node, parent) ==
    (IF node.type = "FunctionDeclaration" /\ node.name # <<>> THEN <<node>> ELSE <<>>)
    \o (IF node.type \in {"ArrowFunctionExpression", "FunctionExpression"}
           /\ parent.type = "VariableDeclarator" /\ parent.name # <<>>
        THEN <<node>> ELSE <<>>)
    \o (IF node.type = "MethodDefinition" /\ node.name # <<>>
        THEN << node.kids[1] >> ELSE <<>>)
    \o Concat([i \in 1..Len(node.kids) |-> FunctionNodes(node.kids[i], node)])

\* the decision points of a function's own body: those below the node that
\* are inside no function nested in it
RECURSIVE OwnDecisionPoints(_)
OwnDecisionPoints(n) ==
    (IF isDecisionPoint(n) THEN 1 ELSE 0)
        + Sum([i \in 1..Len(n.kids) |->
                 IF n.kids[i].type \in functionTypes THEN 0
                 ELSE OwnDecisionPoints(n.kids[i])])

Parsed == parsed.returned /\ parsed.ast = "tree"

\* C11: every function fact parseFile returns, for a named declaration, a
\* variable-bound function or arrow, or a class method, and whatever its
\* body, has an integer complexity of at least 1.
C11_ComplexityAtLeastOne ==
    parsed.returned =>
        \A i \in 1..Len(parsed.functions) :
            parsed.functions[i].complexity \in Nat /\ parsed.functions[i].complexity >= 1

\* a class method with an empty body was extracted with complexity 1
C11_Witness ==
    /\ Parsed
    /\ Len(parsed.functions) = 1
    /\ parsed.functions[1].name = <<"m">>
    /\ parsed.functions[1].complexity = 1
    /\ decisionPoints(parser.ast) = 0

\* C12: the complexity of every function fact is 1 plus the number of decision
\* points of the function's own body; a decision point inside a function
\* nested in it counts for the nested function only.
C12_ComplexityScoped ==
    Parsed =>
        LET nodes == FunctionNodes(parser.ast, NoNode)
        IN  /\ Len(nodes) = Len(parsed.functions)
            /\ \A i \in 1..Len(nodes) :
                   parsed.functions[i].complexity = 1 + OwnDecisionPoints(nodes[i])

\* the file extension, lower-cased, is one of the parsed language family
ParsedFamily(name) ==
    LET parts == Split(name, ".")
    IN  toLowerCase(parts[Len(parts)]) \in
            { <<"t", "s">>, <<"t", "s", "x">>, <<"j", "s">>, <<"j", "s", "x">>,
              <<"m", "j", "s">>, <<"c", "j", "s">> }

\* the number of lines with a character that is not white space
NonBlankLines(str) ==
    LET lines == Split(str, "\n")
    IN  Cardinality({ i \in 1..Len(lines) :
                        \E k \in 1..Len(lines[i]) : lines[i][k] \notin {" ", "\t", "\r"} })

\* C13: parseFile never raises, and when the parser fails or the extension is
\* of no parsed language family the result has no functions, no dependencies,
\* complexity 0, maintainabilityIndex 0, functionCount 0 and linesOfCode equal
\* to the number of non-blank lines of the content.
C13_ParseFileNeverRaises ==
    /\ ~parsed.raised
    /\ (parsed.returned /\ (parser.throws \/ ~ParsedFamily(argFilename))) =>
          /\ parsed.functions = <<>>
          /\ parsed.dependencies = <<>>
          /\ parsed.metrics.complexity = 0
          /\ parsed.metrics.maintainabilityIndex = 0
          /\ parsed.metrics.functionCount = 0
          /\ parsed.metrics.linesOfCode = NonBlankLines(argContent)

\* the parser threw on a TypeScript file of three lines, one of them blank,
\* and parseFile returned
C13_Witness ==
    /\ parsed.returned
    /\ parser.throws
    /\ argFilename = <<"A", ".", "T", "S">>
    /\ Len(Split(argContent, "\n")) = 3
    /\ parsed.metrics.linesOfCode = 2
    /\ parsed.functions = <<>>

\* C18: every dependency fact parseFile returns, for an import declaration, a
\* require call with a literal string or a dynamic import, is internal
\* (isExternal = false) exactly when its specifier starts with '.'.
C18_InternalIffRelative ==
    parsed.returned =>
        \A i \in 1..Len(parsed.dependencies) :
            parsed.dependencies[i].isExternal
                = ~StartsWith(parsed.dependencies[i].source, <<".">>)

\* what the code tags: import and require facts by the first character of the
\* specifier, dynamic imports external whatever the specifier
DynamicAlwaysExternal ==
    parsed.returned =>
        \A i \in 1..Len(parsed.dependencies) :
            LET dep == parsed.dependencies[i]
            IN  dep.isExternal = (dep.type = "dynamic" \/ ~StartsWith(dep.source, <<".">>))

(***************************************************************************)
(* ai/tools-registry.ts                                                    *)
(*                                                                         *)
(* A ToolCall is [name, arguments]; arguments holds the one path the tools *)
(* read, as [defined, value].  world is what the collaborators do during   *)
(* the call: readFileSync throws or returns, a subprocess ends with code   *)
(* 0, ends with another code, or cannot be started, its output is empty or *)
(* not, the function asked for is among the parsed facts or not, and the   *)
(* message of the error thrown.  A report and an error message are the     *)
(* sequences of the parts of their template literals, without the code     *)
(* fences.                                                                 *)
(***************************************************************************)

\* String(error) of an Error with that message
errorString(message) ==
    IF message = <<>> THEN <<"Error">> ELSE <<"Error: ">> \o message

\* executeToolInternal: [threw, message, value]
executeToolInternal(tool, w) ==
    LET path == tool.arguments.path
        shown == IF path.defined THEN path.value ELSE "undefined"
        returns(report) == [threw |-> FALSE, message |-> <<>>, value |-> report]
        throws(message) == [threw |-> TRUE, message |-> message, value |-> <<>>]
        \* join(context.workdir, path); readFileSync(fullPath, 'utf-8')
        readError ==
            IF ~path.defined
            THEN <<"The 'path' argument must be of type string">>
            ELSE w.message
        canRead == path.defined /\ ~w.readFails
        \* await exec('git', ...): rejects when the subprocess cannot be
        \* started, and on an exit code other than 0 unless ignoreReturnCode
        execThrows(ignoreReturnCode) ==
            w.exec = "spawnError" \/ (w.exec = "nonzero" /\ ~ignoreReturnCode)
        execError ==
            IF w.exec = "spawnError" THEN <<"Unable to locate executable file: git">>
            ELSE <<"The process 'git' failed with exit code 1">>
        output == IF w.outputEmpty THEN <<>> ELSE <<"output">>
        readFile ==
            IF canRead THEN returns(<<"File: ", shown, "\nLines: ", "content">>)
            ELSE throws(<<"Failed to read file: ">> \o errorString(readError))
        getFileDiff ==
            IF execThrows(FALSE) THEN throws(execError)
            ELSE IF output = <<>> THEN returns(<<"No changes in ", shown>>)
            ELSE returns(<<"diff\n">> \o output)
        analyzeFileAST ==
            IF canRead THEN returns(<<"## AST Analysis: ", shown, "\n", "metrics">>)
            ELSE throws(readError)
        findFunctionCallers ==
            IF execThrows(TRUE) THEN throws(execError)
            ELSE IF output = <<>> THEN returns(<<"No callers found for ", "funcName">>)
            ELSE returns(<<"## Callers of ", "funcName", "\n">> \o output)
        findFunctionDependencies ==
            IF ~canRead THEN throws(readError)
            ELSE IF ~w.found THEN returns(<<"Function ", "funcName", " not found in ", shown>>)
            ELSE returns(<<"## Dependencies of ", "funcName", "\n", "calls">>)
        runLinter == returns(<<"No linter issues found in ", shown>>)
        searchCode ==
            IF execThrows(TRUE) THEN throws(execError)
            ELSE IF output = <<>> THEN returns(<<"No matches found for pattern: ", "pattern">>)
            ELSE returns(<<"## Search Results for: ", "pattern", "\n">> \o output)
        getCommitInfo ==
            IF execThrows(FALSE) THEN throws(execError)
            ELSE returns(<<"\n">> \o output \o <<"\n">>)
        getFileHistory ==
            IF execThrows(FALSE) THEN throws(execError)
            ELSE IF output = <<>> THEN returns(<<"No history found for ", shown>>)
            ELSE returns(<<"## File History: ", shown, "\n\n">> \o output)
        analyzeFunctionComplexity ==
            IF ~canRead THEN throws(readError)
            ELSE IF ~w.found THEN returns(<<"Function ", "funcName", " not found in ", shown>>)
            ELSE returns(<<"## Complexity Analysis: ", "funcName", "\n", "metrics">>)
    IN  CASE tool.name = "read_file" -> readFile
          [] tool.name = "get_file_diff" -> getFileDiff
          [] tool.name = "analyze_file_ast" -> analyzeFileAST
          [] tool.name = "find_function_callers" -> findFunctionCallers
          [] tool.name = "find_function_dependencies" -> findFunctionDependencies
          [] tool.name = "run_linter" -> runLinter
          [] tool.name = "search_code" -> searchCode
          [] tool.name = "get_commit_info" -> getCommitInfo
          [] tool.name = "get_file_history" -> getFileHistory
          [] tool.name = "analyze_function_complexity" -> analyzeFunctionComplexity
          [] OTHER -> throws(<<"Unknown tool: ", tool.name>>)

\* a ToolResult: error is the optional property, [defined, message]
ToolResult(name, res, error) == [name |-> name, result |-> res, error |-> error]

\* Variant of executeTool: no try block, what executeToolInternal throws
\* leaves executeTool.
executeToolNoCatch(tool, w) ==
    LET r == executeToolInternal(tool, w)
    IN  IF r.threw
        THEN [NoToolResult EXCEPT !.raised = TRUE]
        ELSE [returned |-> TRUE, raised |-> FALSE,
              value |-> ToolResult(tool.name, r.value, [defined |-> FALSE, message |-> <<>>])]

\* executeTool
executeTool(tool, w) ==
    LET r == executeToolInternal(tool, w)
    IN  IF r.threw
        THEN [returned |-> TRUE, raised |-> FALSE,
              value |-> ToolResult(tool.name, <<>>,
                          [defined |-> TRUE,
                           message |-> IF r.message # <<>> THEN r.message
                                       ELSE errorString(r.message)])]
        ELSE [returned |-> TRUE, raised |-> FALSE,
              value |-> ToolResult(tool.name, r.value, [defined |-> FALSE, message |-> <<>>])]

\* the names of AI_TOOLS
ToolNames ==
    {"read_file", "get_file_diff", "analyze_file_ast", "find_function_callers",
     "find_function_dependencies", "run_linter", "search_code", "get_commit_info",
     "get_file_history", "analyze_function_complexity"}

\* the calls a response of the remote model can ask for: a registered tool or
\* another name, with or without a path among the arguments
ToolCalls ==
    [name : ToolNames \cup {"delete_file"},
     arguments : [path : { [defined |-> TRUE, value |-> "src/a.ts"],
                           [defined |-> FALSE, value |-> ""] }]]

Worlds ==
    [readFails : BOOLEAN, exec : {"ok", "nonzero", "spawnError"},
     outputEmpty : BOOLEAN, found : BOOLEAN,
     message : { <<"ENOENT: no such file or directory">>, <<>> }]

InitTools ==
    /\ toolCall \in ToolCalls
    /\ world \in Worlds
    /\ toolResult = NoToolResult
    /\ ChunksIdle
    /\ GraphIdle
    /\ TokensIdle
    /\ ExtractIdle
    /\ ReviewIdle

\* one call executeTool(tool, context)
ExecuteTool ==
    /\ ~toolResult.returned /\ ~toolResult.raised
    /\ toolResult' = executeTool(toolCall, world)
    /\ UNCHANGED <<toolCall, world>>
    /\ UNCHANGED <<chunkVars, graphVars, tokenVars, extractVars, reviewVars>>

NextTools == ExecuteTool

SpecTools == InitTools /\ [][NextTools]_vars

(***************************************************************************)
(* Properties of the tool dispatch.                                        *)
(***************************************************************************)
ReadingTools ==
    {"read_file", "analyze_file_ast", "find_function_dependencies",
     "analyze_function_complexity"}

\* tools whose subprocess must end with code 0, and tools that accept any code
StrictExecTools == {"get_file_diff", "get_commit_info", "get_file_history"}
LenientExecTools == {"find_function_callers", "search_code"}

\* the call fails: the tool is unknown, the file cannot be read, or the
\* subprocess fails
ToolFails ==
    \/ toolCall.name \notin ToolNames
    \/ toolCall.name \in ReadingTools /\ (world.readFails \/ ~toolCall.arguments.path.defined)
    \/ toolCall.name \in StrictExecTools /\ world.exec # "ok"
    \/ toolCall.name \in LenientExecTools /\ world.exec = "spawnError"

MAX_ITERATIONS == 20

\* parseToolCalls: the calls of every json fence, in order.  Reading .name
\* of a null item throws inside the try block: the calls pushed before it stay.
parseToolCalls(parts) ==
    LET call(item) == [name |-> item.name.value, arguments |-> item.arguments]
        readable(items) ==
            LET nulls == {i \in 1..Len(items) : items[i].isNull}
            IN  IF nulls = {} THEN items
                ELSE SubSeq(items, 1, (CHOOSE i \in nulls : \A j \in nulls : i <= j) - 1)
        named(items) == SelectSeq(items, LAMBDA item : item.name.defined)
        callsOf(v) ==
            CASE v.json = "array" ->
                   [i \in 1..Len(named(readable(v.items))) |->
                       call(named(readable(v.items))[i])]
              [] v.json = "object" ->
                   IF v.items[1].name.defined THEN <<call(v.items[1])>> ELSE <<>>
              [] OTHER -> <<>>
        fences == SelectSeq(parts, LAMBDA part : part.kind = "json")
    IN  Concat([i \in 1..Len(fences) |-> callsOf(fences[i].value)])

\* cleanupResponse: think blocks go, a json fence goes when it holds an object
\* with a name or an array in which some() finds a named item before it
\* reaches a null one, and the result is trimmed
cleanupResponse(parts) ==
    LET isToolBlock(v) ==
            CASE v.json = "array" ->
                   \E i \in 1..Len(v.items) :
                       /\ ~v.items[i].isNull /\ v.items[i].name.defined
                       /\ \A j \in 1..(i - 1) : ~v.items[j].isNull
              [] v.json = "object" -> v.items[1].name.defined
              [] OTHER -> FALSE
        kept == SelectSeq(parts, LAMBDA part :
                    /\ part.kind # "think"
                    /\ ~(part.kind = "json" /\ isToolBlock(part.value)))
        solid == {i \in 1..Len(kept) : kept[i].kind # "space"}
    IN  IF solid = {} THEN <<>>
        ELSE SubSeq(kept, CHOOSE i \in solid : \A j \in solid : i <= j,
                          CHOOSE i \in solid : \A j \in solid : i >= j)

\* Variant of performAIReviewStep: an empty response is answered with the
\* reminder on the first iteration as well.
performAIReviewStepRetryFirst(iter, msgs, parts, w) ==
    LET toolCalls == parseToolCalls(parts)
        state == [reviewPc |-> "loop", iteration |-> iter + 1, messages |-> msgs,
                  toolResults |-> <<>>, review |-> <<>>]
        toolText(call) ==
            LET r == executeTool(call, w)
            IN  IF r.raised
                THEN <<"**Tool**: ", call.name, "\n**Error**: ", "undefined">>
                ELSE IF r.value.error.defined /\ r.value.error.message # <<>>
                THEN <<"**Tool**: ", r.value.name, "\n**Error**: ">> \o r.value.error.message
                ELSE <<"**Tool**: ", r.value.name, "\n**Result**:\n">> \o r.value.result
    IN  IF \A i \in 1..Len(parts) : parts[i].kind = "space"
        THEN [state EXCEPT !.messages.user = @ + 1]
        ELSE IF Len(toolCalls) = 0
        THEN [state EXCEPT !.reviewPc = "returned", !.review = cleanupResponse(parts)]
        ELSE [state EXCEPT
                 !.toolResults = [i \in 1..Len(toolCalls) |-> toolText(toolCalls[i])],
                 !.messages.assistant = @ + 1,
                 !.messages.user = @ + 1]

\* the body of the while loop for the response callOpenAI returned
performAIReviewStep(iter, msgs, parts, w) ==
    LET toolCalls == parseToolCalls(parts)
        state == [reviewPc |-> "loop", iteration |-> iter + 1, messages |-> msgs,
                  toolResults |-> <<>>, review |-> <<>>]
        \* the try block around executeTool and its catch
        toolText(call) ==
            LET r == executeTool(call, w)
            IN  IF r.raised
                THEN <<"**Tool**: ", call.name, "\n**Error**: ", "undefined">>
                ELSE IF r.value.error.defined /\ r.value.error.message # <<>>
                THEN <<"**Tool**: ", r.value.name, "\n**Error**: ">> \o r.value.error.message
                ELSE <<"**Tool**: ", r.value.name, "\n**Result**:\n">> \o r.value.result
    IN  IF \A i \in 1..Len(parts) : parts[i].kind = "space"
        THEN IF iter + 1 > 1
             THEN [state EXCEPT !.messages.user = @ + 1]
             ELSE [state EXCEPT !.reviewPc = "raised"]
        ELSE IF Len(toolCalls) = 0
        THEN [state EXCEPT !.reviewPc = "returned", !.review = cleanupResponse(parts)]
        ELSE [state EXCEPT
                 !.toolResults = [i \in 1..Len(toolCalls) |-> toolText(toolCalls[i])],
                 !.messages.assistant = @ + 1,
                 !.messages.user = @ + 1]

\* The responses of the remote model: the empty string, white space, a
\* review, a review after a think block, fences that name no tool (not
\* parseable, null, an object without a name), and fences that ask for tools:
\* one registered tool, an unregistered one, an array with an item without a
\* name, an array with a null item after the first call.
Responses ==
    LET Part(kind) == [kind |-> kind, value |-> [json |-> "none", items |-> <<>>]]
        Fence(json, items) == [kind |-> "json", value |-> [json |-> json, items |-> items]]
        path == [path |-> [defined |-> TRUE, value |-> "src/a.ts"]]
        noPath == [path |-> [defined |-> FALSE, value |-> ""]]
        Item(name, arguments) ==
            [isNull |-> FALSE, name |-> [defined |-> TRUE, value |-> name],
             arguments |-> arguments]
        Unnamed == [isNull |-> FALSE, name |-> [defined |-> FALSE, value |-> ""],
                    arguments |-> noPath]
        Null == [isNull |-> TRUE, name |-> [defined |-> FALSE, value |-> ""],
                 arguments |-> noPath]
    IN  { <<>>,
          << Part("space") >>,
          << Part("text") >>,
          << Part("think"), Part("space"), Part("text"), Part("space") >>,
          << Fence("invalid", <<>>) >>,
          << Fence("null", <<>>) >>,
          << Part("text"), Fence("object", <<Unnamed>>) >>,
          << Part("text"), Fence("object", <<Item("read_file", path)>>) >>,
          << Fence("object", <<Item("delete_file", path)>>) >>,
          << Fence("array", <<Item("analyze_file_ast", noPath), Unnamed,
                              Item("run_linter", path)>>) >>,
          << Fence("array", <<Item("get_file_diff", path), Null,
                              Item("read_file", path)>>), Part("space") >> }

\* what the file system and git do during one loop iteration
ReviewWorlds ==
    { w \in Worlds :
        /\ w.outputEmpty /\ w.found /\ w.message # <<>>
        /\ (w.readFails => w.exec = "spawnError") }

InitReview ==
    /\ config \in [openaiApiKey : BOOLEAN]
    /\ reviewPc = "start"
    /\ iteration = 0
    /\ requests = 0
    /\ messages = <<>>
    /\ response = NoResponse
    /\ toolResults = <<>>
    /\ review = <<>>
    /\ ChunksIdle
    /\ GraphIdle
    /\ TokensIdle
    /\ ExtractIdle
    /\ ToolsIdle

\* performAIReview is called: the key is checked and the system and user
\* prompts open the conversation
StartReview ==
    /\ reviewPc = "start"
    /\ IF config.openaiApiKey
       THEN /\ reviewPc' = "loop"
            /\ messages' = [system |-> 1, user |-> 1, assistant |-> 0]
       ELSE /\ reviewPc' = "raised"
            /\ UNCHANGED messages
    /\ UNCHANGED <<config, iteration, requests, response, toolResults, review>>
    /\ UNCHANGED <<chunkVars, graphVars, tokenVars, extractVars, toolVars>>

\* one iteration of the while loop: callOpenAI throws, or returns a response
\* that the body handles
ReviewIteration ==
    /\ reviewPc = "loop"
    /\ iteration < MAX_ITERATIONS
    /\ requests' = requests + 1
    /\ \/ /\ reviewPc' = "raised"
          /\ iteration' = iteration + 1
          /\ response' = NoResponse
          /\ UNCHANGED <<messages, toolResults, review>>
       \/ \E parts \in Responses, w \in ReviewWorlds :
              LET state == performAIReviewStep(iteration, messages, parts, w)
              IN  /\ response' = [received |-> TRUE, parts |-> parts]
                  /\ reviewPc' = state.reviewPc
                  /\ iteration' = state.iteration
                  /\ messages' = state.messages
                  /\ toolResults' = state.toolResults
                  /\ review' = state.review
    /\ UNCHANGED config
    /\ UNCHANGED <<chunkVars, graphVars, tokenVars, extractVars, toolVars>>

\* the loop has ended: one more user message and one more request, whose
\* response is returned as it is cleaned up
FinalRequest ==
    /\ reviewPc = "loop"
    /\ iteration >= MAX_ITERATIONS
    /\ requests' = requests + 1
    /\ messages' = [messages EXCEPT !.user = @ + 1]
    /\ \/ /\ reviewPc' = "raised"
          /\ response' = NoResponse
          /\ UNCHANGED review
       \/ \E parts \in Responses :
              /\ response' = [received |-> TRUE, parts |-> parts]
              /\ reviewPc' = "returned"
              /\ review' = cleanupResponse(parts)
    /\ UNCHANGED <<config, iteration, toolResults>>
    /\ UNCHANGED <<chunkVars, graphVars, tokenVars, extractVars, toolVars>>

NextReview ==
    \/ StartReview
    \/ ReviewIteration
    \/ FinalRequest

SpecReview == InitReview /\ [][NextReview]_vars

\* await callOpenAI and await executeTool settle: a started review goes on
FairSpecReview == SpecReview /\ WF_vars(NextReview)

(***************************************************************************)
(* Properties of the review conversation.                                  *)
(***************************************************************************)
IsEmptyResponse == \A i \in 1..Len(response.parts) : response.parts[i].kind = "space"
AsksForTools == parseToolCalls(response.parts) # <<>>
ReviewEnded == reviewPc \in {"returned", "raised"}

\* C29: performAIReview makes at most MAX_ITERATIONS + 1 = 21 model requests
\* and ends, returning a review or raising; a non-empty response without a
\* tool call is returned (cleaned up) at once, so it returns at the first one;
\* an empty first response raises; a response that asks for tools inside the
\* loop gets one result text per call, failed calls included, and the loop
\* goes on; and a started review always ends.
C29_ReviewLoopBounded ==
    /\ [](requests <= MAX_ITERATIONS + 1)
    /\ [](requests = MAX_ITERATIONS + 1 => ReviewEnded)
    /\ []((response.received /\ ~IsEmptyResponse /\ ~AsksForTools)
             => (reviewPc = "returned" /\ review = cleanupResponse(response.parts)))
    /\ []((response.received /\ IsEmptyResponse /\ requests = 1) => reviewPc = "raised")
    /\ []((response.received /\ AsksForTools /\ requests <= MAX_ITERATIONS)
             => /\ reviewPc = "loop"
                /\ Len(toolResults) = Len(parseToolCalls(response.parts)))
    /\ [](reviewPc = "returned"
             => /\ response.received
                /\ (~IsEmptyResponse /\ ~AsksForTools) \/ requests = MAX_ITERATIONS + 1)
    /\ ((reviewPc \in {"start", "loop"}) ~> ReviewEnded)

\* the loop ran all 20 iterations, the tool of the last one failed with an
\* error text, and the response to the 21st request was returned
C29_Witness ==
    /\ reviewPc = "returned"
    /\ requests = MAX_ITERATIONS + 1
    /\ iteration = MAX_ITERATIONS
    /\ messages.assistant >= 1
    /\ \E i \in 1..Len(toolResults) : toolResults[i][3] = "\n**Error**: "
    /\ review # <<>>

(***************************************************************************)
(* utils/tokens.ts: truncateToTokens and splitByTokens                     *)
(***************************************************************************)

\* '\n\n... (truncated)'
truncationMarker ==
    <<"\n", "\n", ".", ".", ".", " ", "(", "t", "r", "u", "n", "c", "a", "t", "e", "d", ")">>

\* truncateToTokens.  targetLength is Math.floor(text.length * ratio * 0.9)
\* in double arithmetic; for texts shorter than 200 characters and maxTokens
\* below 12 it is the floor of the exact quotient 9 * length * maxTokens /
\* (10 * estimatedTokens).
truncateToTokens(str, max) ==
    LET estimatedTokens == estimateTokens(str)
    IN  IF estimatedTokens <= max THEN str
        ELSE LET targetLength == (9 * Len(str) * max) \div (10 * estimatedTokens)
             IN  SubSeq(str, 1, targetLength) \o truncationMarker

\* Variant of splitByTokensStep: the line that does not fit closes the running
\* piece and is not carried into the next one.
splitByTokensStepDropLine(acc, line, max) ==
    LET lineTokens == estimateTokens(line) + 1
    IN  IF acc.currentTokens + lineTokens > max /\ Len(acc.currentChunk) > 0
        THEN [chunks |-> Append(acc.chunks, Join(acc.currentChunk, "\n")),
              currentChunk |-> <<>>,
              currentTokens |-> 0]
        ELSE [chunks |-> acc.chunks,
              currentChunk |-> Append(acc.currentChunk, line),
              currentTokens |-> acc.currentTokens + lineTokens]

\* one iteration of the for loop of splitByTokens
splitByTokensStep(acc, line, max) ==
    LET lineTokens == estimateTokens(line) + 1
    IN  IF acc.currentTokens + lineTokens > max /\ Len(acc.currentChunk) > 0
        THEN [chunks |-> Append(acc.chunks, Join(acc.currentChunk, "\n")),
              currentChunk |-> <<line>>,
              currentTokens |-> lineTokens]
        ELSE [chunks |-> acc.chunks,
              currentChunk |-> Append(acc.currentChunk, line),
              currentTokens |-> acc.currentTokens + lineTokens]

RECURSIVE splitByTokensLoop(_, _, _)
splitByTokensLoop(acc, lines, max) ==
    IF lines = <<>> THEN acc
    ELSE splitByTokensLoop(splitByTokensStep(acc, Head(lines), max), Tail(lines), max)

\* splitByTokens
splitByTokens(str, max) ==
    LET acc == splitByTokensLoop([chunks |-> <<>>, currentChunk |-> <<>>,
                                  currentTokens |-> 0], Split(str, "\n"), max)
    IN  IF Len(acc.currentChunk) > 0
        THEN Append(acc.chunks, Join(acc.currentChunk, "\n"))
        ELSE acc.chunks

(***************************************************************************)
(* One caller of the token utilities: a text of at most MaxLines lines, a  *)
(* second text of one line, and a budget.                                  *)
(***************************************************************************)

\* an empty line, prose of 4 and of 20 characters, and lines with a code
\* marker: punctuation, a keyword, a single parenthesis
TextLines ==
    { <<>>,
      <<"a", "b", "c", "d">>,
      <<"a", "b", "c", "d", "e", "f", "g", "h", "i", "j",
        "k", "l", "m", "n", "o", "p", "q", "r", "s", "t">>,
      <<"f", "(", ")", ";">>,
      <<"l", "e", "t">>,
      <<"(">> }

Texts ==
    { Join(ls, "\n") : ls \in UNION { [1..n -> TextLines] : n \in 1..MaxLines } }

TokenBudgets == (0..MaxTokensArg) \cup {8}

InitTokens ==
    /\ argText \in Texts
    /\ argText2 \in TextLines
    /\ argMaxTokens \in TokenBudgets
    /\ estimated = NoEstimate
    /\ truncated = NoString
    /\ pieces = NoString
    /\ ChunksIdle
    /\ GraphIdle
    /\ ExtractIdle
    /\ ToolsIdle
    /\ ReviewIdle

\* estimateTokens(text) and estimateTokens(text2)
EstimateTokens ==
    /\ ~estimated.returned
    /\ estimated' = [returned |-> TRUE, a |-> estimateTokens(argText),
                     b |-> estimateTokens(argText2)]
    /\ UNCHANGED <<argText, argText2, argMaxTokens, truncated, pieces>>
    /\ UNCHANGED <<chunkVars, graphVars, extractVars, toolVars, reviewVars>>

\* truncateToTokens(text, maxTokens)
TruncateToTokens ==
    /\ ~truncated.returned
    /\ truncated' = [returned |-> TRUE, value |-> truncateToTokens(argText, argMaxTokens)]
    /\ UNCHANGED <<argText, argText2, argMaxTokens, estimated, pieces>>
    /\ UNCHANGED <<chunkVars, graphVars, extractVars, toolVars, reviewVars>>

\* splitByTokens(text, maxTokens)
SplitByTokens ==
    /\ ~pieces.returned
    /\ pieces' = [returned |-> TRUE, value |-> splitByTokens(argText, argMaxTokens)]
    /\ UNCHANGED <<argText, argText2, argMaxTokens, estimated, truncated>>
    /\ UNCHANGED <<chunkVars, graphVars, extractVars, toolVars, reviewVars>>

NextTokens ==
    \/ EstimateTokens
    \/ TruncateToTokens
    \/ SplitByTokens

SpecTokens == InitTokens /\ [][NextTokens]_vars

(***************************************************************************)
(* Properties of the token utilities.                                      *)
(***************************************************************************)

\* C15: truncateToTokens returns a string whose estimate is at most maxTokens:
\* the text itself when its estimate is at most maxTokens, and otherwise a
\* prefix of the text followed by the truncation marker.
C15_TruncatedWithinBudget ==
    truncated.returned =>
        /\ estimateTokens(truncated.value) <= argMaxTokens
        /\ estimateTokens(argText) <= argMaxTokens => truncated.value = argText
        /\ estimateTokens(argText) > argMaxTokens =>
              \E n \in 0..Len(argText) :
                  truncated.value = SubSeq(argText, 1, n) \o truncationMarker

\* what the code keeps: the text itself within the budget, otherwise a prefix
\* and the marker, whose estimate alone is 7 tokens
TruncatedShape ==
    truncated.returned =>
        /\ estimateTokens(argText) <= argMaxTokens => truncated.value = argText
        /\ estimateTokens(argText) > argMaxTokens =>
              /\ \E n \in 0..Len(argText) :
                     truncated.value = SubSeq(argText, 1, n) \o truncationMarker
              /\ estimateTokens(truncated.value) >= 7
              /\ estimateTokens(truncated.value) > argMaxTokens

\* C16: every piece splitByTokens returns has an estimate of at most
\* maxTokens, a piece of one long line and a piece that joins prose lines with
\* a line holding a code marker included.
C16_PiecesWithinBudget ==
    pieces.returned =>
        \A i \in 1..Len(pieces.value) : estimateTokens(pieces.value[i]) <= argMaxTokens

\* the text has a code marker
IsCode(str) == \E k \in 1..Len(codeIndicators) : Includes(str, codeIndicators[k])

\* n is Math.ceil(num / den)
IsCeil(n, num, den) == n * den >= num /\ (n - 1) * den < num

Costed(str, n) ==
    IF IsCode(str) THEN IsCeil(n, 2 * Len(str), 5) ELSE IsCeil(n, Len(str), 4)

\* C17 as claimed: for any two texts a and b with length(a) <= length(b),
\* estimate(a) <= estimate(b); a text with a code marker is costed at
\* ceil(length / 2.5), any other text at ceil(length / 4).
C17_MonotonicInLength ==
    estimated.returned =>
        /\ Len(argText) <= Len(argText2) => estimated.a <= estimated.b
        /\ Len(argText2) <= Len(argText) => estimated.b <= estimated.a
        /\ Costed(argText, estimated.a)
        /\ Costed(argText2, estimated.b)

\* C17 as amended: for any two texts a and b that both hold a code marker or
\* both hold none, length(a) <= length(b) gives estimate(a) <= estimate(b); a
\* text with a code marker is costed at ceil(length / 2.5), any other text at
\* ceil(length / 4).
C17_MonotonicWithinKind ==
    estimated.returned =>
        /\ (IsCode(argText) = IsCode(argText2)) =>
              /\ Len(argText) <= Len(argText2) => estimated.a <= estimated.b
              /\ Len(argText2) <= Len(argText) => estimated.b <= estimated.a
        /\ Costed(argText, estimated.a)
        /\ Costed(argText2, estimated.b)

\* two texts with a code marker, the shorter of three characters costed at 2
\* and the longer of nine at 4
C17_Witness ==
    /\ estimated.returned
    /\ IsCode(argText) /\ IsCode(argText2)
    /\ Len(argText2) = 3 /\ estimated.b = 2
    /\ Len(argText) = 9 /\ estimated.a = 4

\* C30: splitByTokens neither splits nor loses a line: there is at least one
\* piece, the lines of the pieces, one piece after the other, are the lines of
\* the text in their order, and joining the pieces with a newline gives the
\* text back, for every text and every maxTokens.
C30_JoinRoundTrip ==
    pieces.returned =>
        /\ Len(pieces.value) >= 1
        /\ Concat([i \in 1..Len(pieces.value) |-> Split(pieces.value[i], "\n")])
               = Split(argText, "\n")
        /\ Join(pieces.value, "\n") = argText

\* a text of two lines, the second of them empty, was cut into two pieces
C30_Witness ==
    /\ pieces.returned
    /\ Len(Split(argText, "\n")) = 2
    /\ Len(pieces.value) = 2
    /\ pieces.value[1] # <<>>
    /\ pieces.value[2] = <<>>

====
